---- MODULE Spec2Model ----
(***************************************************************************)
(* CropAdviser: the persistence layer (server/storage.ts), the HTTP        *)
(* handlers (server/routes.ts) and the tables of shared/schema.ts, as a    *)
(* state machine over the rows of the database.                            *)
(*                                                                         *)
(* Every `await db....` of the source is one database statement, and one   *)
(* step of the model: the statement together with the JavaScript that runs *)
(* after it up to the next await (the first step of a handler also holds   *)
(* the code before its first statement).  Requests interleave statement by *)
(* statement; the code states no transaction.                              *)
(*                                                                         *)
(* varchar values are strings; a NULL column is the value NULL.  Row ids   *)
(* (gen_random_uuid()) are fresh strings drawn from a counter.  The        *)
(* references() clauses of the schema are enforced as foreign keys: an     *)
(* insert that names a parent row that does not exist throws.              *)
(***************************************************************************)
EXTENDS Integers, Sequences, FiniteSets, TLC

(***************************************************************************)
(* Bounds of the model.                                                    *)
(***************************************************************************)
\* requests started in one behaviour (each runs in its own slot)
MaxRequests == 2
\* Math.random() yields k * 999 / RandMax thousandths, k \in 0..RandMax
RandMax == 1
\* clock advances in one behaviour
MaxTicks == 1

(***************************************************************************)
(* Program constants.                                                      *)
(***************************************************************************)
\* routes.ts:127  Date.now() - weather.lastUpdated.getTime() > 3600000
StaleAfterMs == 3600000

NULL == "<null>"

\* a timestamp column that is NULL
NoTime == -1

VARIABLES
    users,            \* table users: rows [id, firstName, selectedState, selectedSoilType]
    states,           \* table states: rows [id, name, code]
    soilTypes,        \* table soil_types: rows [id, stateId, name]
    crops,            \* table crops: rows [id, name, soilCompatibility]
    cropRecommendations, \* table crop_recommendations
    weatherData,      \* table weather_data
    nextId,           \* the ids handed out so far
    now,              \* the clock, in milliseconds
    ticks,            \* clock advances so far
    started,          \* requests started so far
    pc,               \* pc[p]: where request p stands in its handler
    loc,              \* loc[p]: the handler's arguments and local variables
    resp,             \* resp[p]: the response sent for request p
    hist              \* hist[p]: what request p read and wrote (history, not program state)

vars == << users, states, soilTypes, crops, cropRecommendations, weatherData,
           nextId, now, ticks, started, pc, loc, resp, hist >>

tables == << users, states, soilTypes, crops, cropRecommendations, weatherData >>

Procs == 1..MaxRequests

(***************************************************************************)
(* Seed data: storage.ts, first DatabaseStorage.                           *)
(***************************************************************************)
indianStates ==
    << [name |-> "Punjab", code |-> "PB"],
       [name |-> "Haryana", code |-> "HR"],
       [name |-> "Himachal Pradesh", code |-> "HP"],
       [name |-> "Uttarakhand", code |-> "UT"],
       [name |-> "Uttar Pradesh", code |-> "UP"],
       [name |-> "Delhi", code |-> "DL"],
       [name |-> "Rajasthan", code |-> "RJ"],
       [name |-> "Gujarat", code |-> "GJ"],
       [name |-> "Maharashtra", code |-> "MH"],
       [name |-> "Goa", code |-> "GA"],
       [name |-> "Madhya Pradesh", code |-> "MP"],
       [name |-> "Chhattisgarh", code |-> "CG"],
       [name |-> "West Bengal", code |-> "WB"],
       [name |-> "Bihar", code |-> "BR"],
       [name |-> "Jharkhand", code |-> "JH"],
       [name |-> "Odisha", code |-> "OR"],
       [name |-> "Assam", code |-> "AS"],
       [name |-> "Meghalaya", code |-> "ML"],
       [name |-> "Manipur", code |-> "MN"],
       [name |-> "Tripura", code |-> "TR"],
       [name |-> "Nagaland", code |-> "NL"],
       [name |-> "Mizoram", code |-> "MZ"],
       [name |-> "Arunachal Pradesh", code |-> "AR"],
       [name |-> "Sikkim", code |-> "SK"],
       [name |-> "Karnataka", code |-> "KA"],
       [name |-> "Tamil Nadu", code |-> "TN"],
       [name |-> "Andhra Pradesh", code |-> "AP"],
       [name |-> "Telangana", code |-> "TG"],
       [name |-> "Kerala", code |-> "KL"],
       [name |-> "Jammu & Kashmir", code |-> "JK"],
       [name |-> "Ladakh", code |-> "LA"],
       [name |-> "Chandigarh", code |-> "CH"],
       [name |-> "Puducherry", code |-> "PY"] >>

soilMapping ==
    [ PB |-> << "Alluvial Soil", "Sandy Loam", "Clay Loam", "Saline Soil" >>,
      HR |-> << "Alluvial Soil", "Sandy Soil", "Clay Soil", "Loamy Soil" >>,
      HP |-> << "Mountain Soil", "Alluvial Soil", "Brown Hill Soil", "Forest Soil" >>,
      UT |-> << "Mountain Soil", "Forest Soil", "Alluvial Soil", "Brown Soil" >>,
      UP |-> << "Alluvial Soil", "Black Cotton Soil", "Sandy Loam", "Clay Soil", "Saline Alkali Soil" >>,
      DL |-> << "Alluvial Soil", "Sandy Loam", "Clay Loam" >>,
      RJ |-> << "Desert Soil", "Alluvial Soil", "Red Soil", "Saline Soil", "Sandy Soil" >>,
      GJ |-> << "Black Cotton Soil", "Alluvial Soil", "Sandy Soil", "Saline Soil", "Red Soil" >>,
      MH |-> << "Black Cotton Soil", "Red Soil", "Alluvial Soil", "Laterite Soil", "Sandy Loam" >>,
      GA |-> << "Laterite Soil", "Alluvial Soil", "Red Soil", "Coastal Sandy Soil" >>,
      MP |-> << "Black Cotton Soil", "Red and Yellow Soil", "Alluvial Soil", "Mixed Red and Black Soil", "Laterite Soil" >>,
      CG |-> << "Red and Yellow Soil", "Alluvial Soil", "Black Soil", "Laterite Soil", "Forest Soil" >>,
      WB |-> << "Alluvial Soil", "Red Laterite Soil", "Terai Soil", "Coastal Alluvium", "Hill Soil" >>,
      BR |-> << "Alluvial Soil", "Newer Alluvium", "Older Alluvium", "Terai Soil" >>,
      JH |-> << "Red Soil", "Laterite Soil", "Alluvial Soil", "Forest Soil", "Sandy Loam" >>,
      OR |-> << "Red Soil", "Alluvial Soil", "Laterite Soil", "Black Soil", "Coastal Sandy Soil" >>,
      AS |-> << "Alluvial Soil", "Hill Soil", "Red Loamy Soil", "Laterite Soil", "Terai Soil" >>,
      ML |-> << "Red Soil", "Laterite Soil", "Forest Soil", "Alluvial Soil" >>,
      MN |-> << "Red Soil", "Alluvial Soil", "Forest Soil", "Hill Slope Soil" >>,
      TR |-> << "Red and Yellow Soil", "Alluvial Soil", "Forest Soil", "Laterite Soil" >>,
      NL |-> << "Forest Soil", "Red Soil", "Alluvial Soil", "Mountain Soil" >>,
      MZ |-> << "Red Soil", "Forest Soil", "Alluvial Soil", "Mountain Soil" >>,
      AR |-> << "Mountain Soil", "Forest Soil", "Red Soil", "Alluvial Soil" >>,
      SK |-> << "Mountain Soil", "Forest Soil", "Alpine Soil", "Alluvial Soil" >>,
      KA |-> << "Red Soil", "Black Soil", "Laterite Soil", "Alluvial Soil", "Coastal Sandy Soil", "Forest Soil" >>,
      TN |-> << "Red Soil", "Black Soil", "Alluvial Soil", "Laterite Soil", "Coastal Sandy Soil", "Saline Soil" >>,
      AP |-> << "Red Soil", "Black Soil", "Alluvial Soil", "Laterite Soil", "Coastal Sandy Soil" >>,
      TG |-> << "Red Soil", "Black Soil", "Alluvial Soil", "Mixed Red and Black Soil" >>,
      KL |-> << "Laterite Soil", "Alluvial Soil", "Red Soil", "Coastal Sandy Soil", "Forest Soil", "Hill Soil" >>,
      JK |-> << "Mountain Soil", "Alluvial Soil", "Forest Soil", "Alpine Soil", "Glacial Soil" >>,
      LA |-> << "Cold Desert Soil", "Mountain Soil", "Glacial Soil", "Alpine Soil" >>,
      CH |-> << "Alluvial Soil", "Sandy Loam", "Clay Loam" >>,
      PY |-> << "Red Soil", "Alluvial Soil", "Coastal Sandy Soil", "Black Soil" >> ]

\* storage.ts:420-424  the list for a code the mapping does not hold
fallbackSoils == << "Alluvial Soil", "Red Soil", "Black Soil" >>

\* getSoilTypesForState answering the generic list for every code
getSoilTypesForStateGeneric(stateCode) == fallbackSoils

\* storage.ts:189-425  soilMapping[stateCode] || [...]
getSoilTypesForState(stateCode) ==
    IF stateCode \in DOMAIN soilMapping THEN soilMapping[stateCode] ELSE fallbackSoils

\* storage.ts:747-768  the soilMapping of the second DatabaseStorage in the file
soilMappingSecond ==
    [ PB |-> << "Alluvial Soil", "Sandy Loam" >>,
      HR |-> << "Alluvial Soil", "Sandy Soil" >>,
      UP |-> << "Alluvial Soil", "Black Cotton Soil" >>,
      RJ |-> << "Desert Soil", "Alluvial Soil" >>,
      MP |-> << "Black Cotton Soil", "Red and Yellow Soil" >> ]

\* storage.ts:770-773
fallbackSoilsSecond == << "Alluvial Soil", "Red Soil" >>

\* storage.ts:746-774  getSoilTypesForState of the second DatabaseStorage
getSoilTypesForStateSecond(stateCode) ==
    IF stateCode \in DOMAIN soilMappingSecond THEN soilMappingSecond[stateCode]
    ELSE fallbackSoilsSecond

\* storage.ts:441-482  soilCompatibility holds JSON.stringify([...]): the text of
\* an array of plain strings, kept here as that array
cropData ==
    << [name |-> "Rice",      soilCompatibility |-> << "Alluvial Soil", "Clay Soil" >>],
       [name |-> "Wheat",     soilCompatibility |-> << "Alluvial Soil", "Sandy Loam" >>],
       [name |-> "Cotton",    soilCompatibility |-> << "Black Cotton Soil" >>],
       [name |-> "Sugarcane", soilCompatibility |-> << "Alluvial Soil", "Red Soil" >>] >>

(***************************************************************************)
(* The database.                                                           *)
(***************************************************************************)
\* gen_random_uuid(): the rows of the b-th INSERT statement get ids no other
\* statement hands out; key tells the rows of one statement apart
NewId(b, key) == "r" \o ToString(b) \o "." \o key

\* JSON.parse(text || "[]") of a column written by JSON.stringify(array)
JSONParse(text) == IF text = NULL THEN << >> ELSE text

\* Array.prototype.includes
Includes(list, x) == \E i \in DOMAIN list : list[i] = x

\* a truthy string: neither null/undefined nor ""
Truthy(v) == v # NULL /\ v # ""

NoResp == [status |-> 0, body |-> {}]

NoHist == [at |-> 0, read |-> {}, before |-> {}, wrote |-> {}, deleted |-> FALSE,
           seenDeleted |-> {}, failed |-> FALSE, userBefore |-> {},
           pickedFor |-> NULL, reset |-> FALSE]

\* a request body with neither field
NoBody == [selectedState |-> [t |-> "undefined", s |-> ""],
           selectedSoilType |-> [t |-> "undefined", s |-> ""]]

IdleLoc == [handler |-> "none", userId |-> NULL, stateId |-> NULL, soilTypeId |-> NULL,
            body |-> NoBody, user |-> {}, rows |-> {}, ts |-> 0]

Respond(p, status, body) ==
    /\ pc' = [pc EXCEPT ![p] = "done"]
    /\ resp' = [resp EXCEPT ![p] = [status |-> status, body |-> body]]

\* a seeding function has returned: GET /api/init goes on with its next call
\* (routes.ts:15-17); called on its own, the call has ended
SeedReturns(p, next) ==
    IF loc[p].handler = "init"
    THEN pc' = [pc EXCEPT ![p] = next] /\ resp' = resp
    ELSE Respond(p, 200, {})

\* the request in slot p is the next one to start
CanStart(p) == p = started + 1 /\ pc[p] = "idle"

\* no request is between two statements
Quiet == \A q \in Procs : pc[q] \in {"idle", "done"}

(***************************************************************************)
(* Seeding: GET /api/init -> seedStates, seedSoilTypes, seedCrops.         *)
(***************************************************************************)
\* storage.ts:166  db.insert(states).values(indianStates)
StateRows(b) ==
    { [id |-> NewId(b, ToString(i)), name |-> indianStates[i].name,
       code |-> indianStates[i].code] : i \in DOMAIN indianStates }

\* SoilTypeData stopping after the first state row
SoilTypeDataOfOne(allStates) ==
    IF allStates = {} THEN {}
    ELSE LET s == CHOOSE x \in allStates : TRUE
         IN  { [stateId |-> s.id, name |-> getSoilTypesForState(s.code)[j],
                key |-> s.id \o "." \o ToString(j)]
               : j \in DOMAIN getSoilTypesForState(s.code) }

\* storage.ts:178-184  one entry per soil of every state row read
SoilTypeData(allStates) ==
    UNION { { [stateId |-> s.id, name |-> getSoilTypesForState(s.code)[j], key |-> s.id \o "." \o ToString(j)]
              : j \in DOMAIN getSoilTypesForState(s.code) } : s \in allStates }

\* storage.ts:186  db.insert(soilTypes).values(soilTypeData)
SoilRows(b, soilTypeData) ==
    { [id |-> NewId(b, d.key), stateId |-> d.stateId, name |-> d.name] : d \in soilTypeData }

\* storage.ts:484  db.insert(crops).values(cropData)
CropRows(b) ==
    { [id |-> NewId(b, ToString(i)), name |-> cropData[i].name,
       soilCompatibility |-> cropData[i].soilCompatibility] : i \in DOMAIN cropData }

\* InitStart without the look at the rows already there
InitStartUnchecked(p) ==
    /\ CanStart(p)
    /\ started' = started + 1
    /\ loc' = [loc EXCEPT ![p] = [IdleLoc EXCEPT !.handler = "init"]]
    /\ pc' = [pc EXCEPT ![p] = "seedStates.insert"]
    /\ UNCHANGED << tables, nextId, now, ticks, resp, hist >>

\* routes.ts:13-15, storage.ts:113-115: the handler starts seedStates, which
\* reads the states table and returns when it holds a row
InitStart(p) ==
    /\ CanStart(p)
    /\ started' = started + 1
    /\ loc' = [loc EXCEPT ![p] = [IdleLoc EXCEPT !.handler = "init"]]
    /\ pc' = [pc EXCEPT ![p] = IF states # {} THEN "seedSoilTypes" ELSE "seedStates.insert"]
    /\ UNCHANGED << tables, nextId, now, ticks, resp, hist >>

\* storage.ts:166
SeedStatesInsert(p) ==
    /\ pc[p] = "seedStates.insert"
    /\ states' = states \cup StateRows(nextId)
    /\ nextId' = nextId + 1
    /\ SeedReturns(p, "seedSoilTypes")
    /\ UNCHANGED << users, soilTypes, crops, cropRecommendations, weatherData,
                    now, ticks, started, loc, hist >>

\* storage.ts:175-176  select().from(soilTypes).limit(1)
SeedSoilCheck(p) ==
    /\ pc[p] = "seedSoilTypes"
    /\ pc' = [pc EXCEPT ![p] = IF soilTypes # {} THEN "seedCrops" ELSE "seedSoilTypes.states"]
    /\ UNCHANGED << tables, nextId, now, ticks, started, loc, resp, hist >>

\* storage.ts:178-186  getAllStates(), the loop, and values(soilTypeData), which
\* throws on an empty array (the handler answers 500, routes.ts:19-21)
SeedSoilStates(p) ==
    /\ pc[p] = "seedSoilTypes.states"
    /\ IF SoilTypeData(states) = {}
       THEN /\ Respond(p, 500, {})
            /\ loc' = loc
       ELSE /\ loc' = [loc EXCEPT ![p].rows = SoilTypeData(states)]
            /\ pc' = [pc EXCEPT ![p] = "seedSoilTypes.insert"]
            /\ resp' = resp
    /\ UNCHANGED << tables, nextId, now, ticks, started, hist >>

\* storage.ts:186  stateId references states.id
SeedSoilInsert(p) ==
    /\ pc[p] = "seedSoilTypes.insert"
    /\ IF \A d \in loc[p].rows : \E s \in states : s.id = d.stateId
       THEN /\ soilTypes' = soilTypes \cup SoilRows(nextId, loc[p].rows)
            /\ SeedReturns(p, "seedCrops")
       ELSE /\ soilTypes' = soilTypes
            /\ Respond(p, 500, {})
    /\ nextId' = nextId + 1
    /\ loc' = [loc EXCEPT ![p].rows = {}]
    /\ UNCHANGED << users, states, crops, cropRecommendations, weatherData,
                    now, ticks, started, hist >>

\* storage.ts:438-439  select().from(crops).limit(1); routes.ts:18
SeedCropsCheck(p) ==
    /\ pc[p] = "seedCrops"
    /\ IF crops # {}
       THEN Respond(p, 200, {})
       ELSE /\ pc' = [pc EXCEPT ![p] = "seedCrops.insert"]
            /\ resp' = resp
    /\ UNCHANGED << tables, nextId, now, ticks, started, loc, hist >>

\* storage.ts:484; routes.ts:18
SeedCropsInsert(p) ==
    /\ pc[p] = "seedCrops.insert"
    /\ crops' = crops \cup CropRows(nextId)
    /\ nextId' = nextId + 1
    /\ Respond(p, 200, {})
    /\ UNCHANGED << users, states, soilTypes, cropRecommendations, weatherData,
                    now, ticks, started, loc, hist >>

\* storage.ts:113-115  seedStates called on its own
CallSeedStates(p) ==
    /\ CanStart(p)
    /\ started' = started + 1
    /\ loc' = [loc EXCEPT ![p] = [IdleLoc EXCEPT !.handler = "seedStates"]]
    /\ IF states # {}
       THEN Respond(p, 200, {})
       ELSE pc' = [pc EXCEPT ![p] = "seedStates.insert"] /\ resp' = resp
    /\ UNCHANGED << tables, nextId, now, ticks, hist >>

\* storage.ts:174-176  seedSoilTypes called on its own
CallSeedSoilTypes(p) ==
    /\ CanStart(p)
    /\ started' = started + 1
    /\ loc' = [loc EXCEPT ![p] = [IdleLoc EXCEPT !.handler = "seedSoilTypes"]]
    /\ IF soilTypes # {}
       THEN Respond(p, 200, {})
       ELSE pc' = [pc EXCEPT ![p] = "seedSoilTypes.states"] /\ resp' = resp
    /\ UNCHANGED << tables, nextId, now, ticks, hist >>

\* storage.ts:437-439  seedCrops called on its own
CallSeedCrops(p) ==
    /\ CanStart(p)
    /\ started' = started + 1
    /\ loc' = [loc EXCEPT ![p] = [IdleLoc EXCEPT !.handler = "seedCrops"]]
    /\ IF crops # {}
       THEN Respond(p, 200, {})
       ELSE pc' = [pc EXCEPT ![p] = "seedCrops.insert"] /\ resp' = resp
    /\ UNCHANGED << tables, nextId, now, ticks, hist >>

(***************************************************************************)
(* Recommendations: PATCH /api/user/location, POST                         *)
(* /api/crop-recommendations/generate, generateCropRecommendations.        *)
(***************************************************************************)
\* a JSON value of a request body: a string, a number, or a missing field
Str(s) == [t |-> "string", s |-> s]

\* NonEmptyString without min(1)
NonEmptyStringAnyLength(v) == v.t = "string"

\* part_000:161-164  z.string().min(1)
NonEmptyString(v) == v.t = "string" /\ Len(v.s) >= 1

\* part_000:161-164  updateUserLocationSchema.parse succeeds
ValidLocation(body) ==
    NonEmptyString(body.selectedState) /\ NonEmptyString(body.selectedSoilType)

\* storage.ts:547-552
irrigationAdvice ==
    [ Rice |-> "Maintain 2-3 inches of standing water throughout growing season",
      Wheat |-> "Apply irrigation at critical stages: crown root initiation, tillering, flowering",
      Cotton |-> "Deep watering every 7-10 days during flowering and boll formation",
      Sugarcane |-> "Regular irrigation every 7-15 days depending on soil moisture" ]

\* storage.ts:557-562
fertilizerAdvice ==
    [ Rice |-> "Apply nitrogen in splits: 50% at transplanting, 25% at tillering, 25% at panicle initiation",
      Wheat |-> "Apply NPK fertilizers at sowing and top-dress with nitrogen at tillering",
      Cotton |-> "Heavy potash requirement during boll formation stage",
      Sugarcane |-> "High nitrogen requirement, apply in multiple splits" ]

\* storage.ts:567-572
pestControlAdvice ==
    [ Rice |-> "Monitor for brown plant hopper, stem borer, and blast disease",
      Wheat |-> "Watch for aphids, rust diseases, and termites",
      Cotton |-> "Control bollworm, whitefly, and pink bollworm",
      Sugarcane |-> "Prevent borer attacks and red rot disease" ]

\* the properties an object literal inherits from Object.prototype
ObjectPrototypeKeys ==
    {"constructor", "toString", "toLocaleString", "valueOf", "hasOwnProperty",
     "isPrototypeOf", "propertyIsEnumerable", "__proto__"}

\* a value that is a function, and one that is the object Object.prototype
FunctionValue == "<function>"
ObjectValue == "<object>"

\* storage.ts:553, 563, 573  advice[cropName] || "...": the property of the
\* object literal, own or inherited, and the generic text when there is none
AdviceLookup(advice, cropName, generic) ==
    IF cropName \in DOMAIN advice THEN advice[cropName]
    ELSE IF cropName = "__proto__" THEN ObjectValue
    ELSE IF cropName \in ObjectPrototypeKeys THEN FunctionValue
    ELSE generic

\* storage.ts:546-554
getIrrigationAdvice(cropName) ==
    AdviceLookup(irrigationAdvice, cropName,
                 "Follow standard irrigation practices for your region")

\* storage.ts:556-564
getFertilizerAdvice(cropName) ==
    AdviceLookup(fertilizerAdvice, cropName,
                 "Apply balanced NPK fertilizers as per soil test")

\* storage.ts:566-574
getPestControlAdvice(cropName) ==
    AdviceLookup(pestControlAdvice, cropName,
                 "Regular monitoring for pests and diseases")

\* storage.ts:509-513  JSON.stringify of an object: a property whose value is a
\* function is left out; the text is kept here as the object it encodes
JSONStringify(object) ==
    [k \in {x \in DOMAIN object : object[x] # FunctionValue} |-> object[k]]

\* Math.random(), in thousandths: 0 <= r < 1000
RandomValues == {(k * 999) \div RandMax : k \in 0..RandMax}

\* the draws of one call, one per element of D: the sampled sequences of draws
\* are those that repeat one value, from the least to the greatest
Draws(D) == {[d \in D |-> r] : r \in RandomValues}

\* storage.ts:500  compatibleSoils.includes(soilType[0].name)
Compatible(crop, soilName) == Includes(JSONParse(crop.soilCompatibility), soilName)

\* Score with the two ranges exchanged
ScoreRangesSwapped(compatibility, r) ==
    IF compatibility THEN (r * 30) \div 1000 + 50 ELSE (r * 20) \div 1000 + 80

\* storage.ts:501  Math.floor(Math.random() * 20) + 80 : Math.floor(Math.random() * 30) + 50
Score(compatibility, r) ==
    IF compatibility THEN (r * 20) \div 1000 + 80 ELSE (r * 30) \div 1000 + 50

\* Recommendations keeping the compatible crops only
RecommendationsCompatibleOnly(userId, stateId, soilTypeId, allCrops, soilType, rnd) ==
    IF soilType = {} THEN {}
    ELSE LET soil == CHOOSE s \in soilType : TRUE
         IN  { [userId |-> userId, cropId |-> crop.id, stateId |-> stateId,
                soilTypeId |-> soilTypeId,
                compatibilityScore |-> (rnd[crop.id] * 20) \div 1000 + 80,
                recommendations |-> JSONStringify(
                                    [irrigation |-> getIrrigationAdvice(crop.name),
                                     fertilizer |-> getFertilizerAdvice(crop.name),
                                     pestControl |-> getPestControlAdvice(crop.name)])]
               : crop \in {c \in allCrops :
                             \E i \in DOMAIN c.soilCompatibility :
                                 c.soilCompatibility[i] = soil.name} }

\* storage.ts:495-516  the loop: one entry per crop read, and none when no
\* soil-type row has the id; rnd[c] is the draw made for crop c
Recommendations(userId, stateId, soilTypeId, allCrops, soilType, rnd) ==
    IF soilType = {} THEN {}
    ELSE LET soil == CHOOSE s \in soilType : TRUE
         IN  { [userId |-> userId, cropId |-> crop.id, stateId |-> stateId,
                soilTypeId |-> soilTypeId,
                compatibilityScore |-> Score(Compatible(crop, soil.name), rnd[crop.id]),
                recommendations |-> JSONStringify(
                                    [irrigation |-> getIrrigationAdvice(crop.name),
                                     fertilizer |-> getFertilizerAdvice(crop.name),
                                     pestControl |-> getPestControlAdvice(crop.name)])]
               : crop \in allCrops }

\* storage.ts:518  the rows the insert writes
RecommendationRows(b, recommendations) ==
    { [id |-> NewId(b, r.cropId), userId |-> r.userId, cropId |-> r.cropId,
       stateId |-> r.stateId, soilTypeId |-> r.soilTypeId,
       compatibilityScore |-> r.compatibilityScore,
       recommendations |-> r.recommendations] : r \in recommendations }

\* part_000:72-75  the foreign keys of crop_recommendations
RecommendationKeysExist(r) ==
    /\ \E u \in users : u.id = r.userId
    /\ \E c \in crops : c.id = r.cropId
    /\ \E s \in states : s.id = r.stateId
    /\ \E s \in soilTypes : s.id = r.soilTypeId

\* part_000:33  email is unique: the statement throws when another row holds
\* the email of userData (rows without an email never collide)
EmailTaken(userData) ==
    /\ userData.email # NULL
    /\ \E u \in users : u.id # userData.id /\ u.email = userData.email

\* UpsertedUsers writing a fresh row in place of the one with the id
UpsertedUsersReplacing(userData) ==
    {u \in users : u.id # userData.id}
    \cup {[id |-> userData.id, email |-> userData.email, firstName |-> userData.firstName,
           selectedState |-> NULL, selectedSoilType |-> NULL]}

\* storage.ts:76-86  insert(users).values(userData).onConflictDoUpdate({target:
\* users.id, set: {...userData, updatedAt}}): a new row without a selection
\* (part_000:37-38), or the columns of userData set in the row with that id
UpsertedUsers(userData) ==
    IF \E u \in users : u.id = userData.id
    THEN { IF u.id = userData.id
           THEN [u EXCEPT !.email = userData.email, !.firstName = userData.firstName]
           ELSE u : u \in users }
    ELSE users \cup {[id |-> userData.id, email |-> userData.email,
                      firstName |-> userData.firstName,
                      selectedState |-> NULL, selectedSoilType |-> NULL]}

\* storage.ts:75-88  upsertUser called on its own (by the login): one
\* statement; it returns the row written, or throws
UpsertUser(p, userData) ==
    /\ CanStart(p)
    /\ started' = started + 1
    /\ loc' = [loc EXCEPT ![p] = [IdleLoc EXCEPT !.handler = "upsertUser",
                                                 !.userId = userData.id,
                                                 !.user = {userData}]]
    /\ IF EmailTaken(userData)
       THEN /\ users' = users
            /\ Respond(p, 500, {})
       ELSE /\ users' = UpsertedUsers(userData)
            /\ Respond(p, 200, {u \in users' : u.id = userData.id})
    /\ hist' = [hist EXCEPT ![p].at = now,
                            ![p].failed = EmailTaken(userData),
                            ![p].before = {r.id : r \in {x \in cropRecommendations :
                                                           x.userId = userData.id}},
                            ![p].userBefore = {u \in users : u.id = userData.id}]
    /\ UNCHANGED << states, soilTypes, crops, cropRecommendations, weatherData,
                    nextId, now, ticks >>

\* UpdatedUsers setting selectedState alone
UpdatedUsersStateOnly(userId, location) ==
    { IF u.id = userId
      THEN [u EXCEPT !.selectedState = location.selectedState.s]
      ELSE u : u \in users }

\* storage.ts:90-101  update(users).set({selectedState, selectedSoilType}).where(id = userId)
UpdatedUsers(userId, location) ==
    { IF u.id = userId
      THEN [u EXCEPT !.selectedState = location.selectedState.s,
                     !.selectedSoilType = location.selectedSoilType.s]
      ELSE u : u \in users }

\* PatchLocation with a catch block that answers 500 for every error
PatchLocationAll500(p, userId, body) ==
    /\ CanStart(p)
    /\ started' = started + 1
    /\ IF ValidLocation(body)
       THEN /\ users' = UpdatedUsers(userId, body)
            /\ loc' = [loc EXCEPT ![p] =
                         [IdleLoc EXCEPT !.handler = "patch", !.userId = userId,
                                         !.body = body,
                                         !.stateId = body.selectedState.s,
                                         !.soilTypeId = body.selectedSoilType.s,
                                         !.user = {u \in users' : u.id = userId}]]
            /\ pc' = [pc EXCEPT ![p] = "generate.delete"]
            /\ resp' = resp
       ELSE /\ users' = users
            /\ loc' = [loc EXCEPT ![p] = [IdleLoc EXCEPT !.handler = "patch", !.userId = userId,
                                                          !.body = body]]
            /\ Respond(p, 500, {})
    /\ hist' = [hist EXCEPT ![p].at = now,
                            ![p].before = {r.id : r \in {x \in cropRecommendations : x.userId = userId}},
                            ![p].userBefore = {u \in users : u.id = userId}]
    /\ UNCHANGED << states, soilTypes, crops, cropRecommendations, weatherData,
                    nextId, now, ticks >>

\* PatchLocation calling updateUserLocation before the body is parsed
PatchLocationUpdatingFirst(p, userId, body) ==
    /\ CanStart(p)
    /\ started' = started + 1
    /\ users' = UpdatedUsers(userId, body)
    /\ IF ValidLocation(body)
       THEN /\ loc' = [loc EXCEPT ![p] =
                         [IdleLoc EXCEPT !.handler = "patch", !.userId = userId,
                                         !.body = body,
                                         !.stateId = body.selectedState.s,
                                         !.soilTypeId = body.selectedSoilType.s,
                                         !.user = {u \in users' : u.id = userId}]]
            /\ pc' = [pc EXCEPT ![p] = "generate.delete"]
            /\ resp' = resp
       ELSE /\ loc' = [loc EXCEPT ![p] = [IdleLoc EXCEPT !.handler = "patch", !.userId = userId,
                                                          !.body = body]]
            /\ Respond(p, 400, {})
    /\ hist' = [hist EXCEPT ![p].at = now,
                            ![p].before = {r.id : r \in {x \in cropRecommendations : x.userId = userId}},
                            ![p].userBefore = {u \in users : u.id = userId}]
    /\ UNCHANGED << states, soilTypes, crops, cropRecommendations, weatherData,
                    nextId, now, ticks >>

\* routes.ts:61-73, storage.ts:90-101: a body that fails the schema is answered
\* 400 before any statement; otherwise the users row is updated and
\* generateCropRecommendations is called
PatchLocation(p, userId, body) ==
    /\ CanStart(p)
    /\ started' = started + 1
    /\ IF ValidLocation(body)
       THEN /\ users' = UpdatedUsers(userId, body)
            /\ loc' = [loc EXCEPT ![p] =
                         [IdleLoc EXCEPT !.handler = "patch", !.userId = userId,
                                         !.body = body,
                                         !.stateId = body.selectedState.s,
                                         !.soilTypeId = body.selectedSoilType.s,
                                         !.user = {u \in users' : u.id = userId}]]
            /\ pc' = [pc EXCEPT ![p] = "generate.delete"]
            /\ resp' = resp
       ELSE /\ users' = users
            /\ loc' = [loc EXCEPT ![p] = [IdleLoc EXCEPT !.handler = "patch", !.userId = userId,
                                                          !.body = body]]
            /\ Respond(p, 400, {})
    /\ hist' = [hist EXCEPT ![p].at = now,
                            ![p].before = {r.id : r \in {x \in cropRecommendations : x.userId = userId}},
                            ![p].userBefore = {u \in users : u.id = userId}]
    /\ UNCHANGED << states, soilTypes, crops, cropRecommendations, weatherData,
                    nextId, now, ticks >>

\* PostGenerate without the test of routes.ts:103-105
PostGenerateUnchecked(p, userId) ==
    /\ CanStart(p)
    /\ started' = started + 1
    /\ LET user == {u \in users : u.id = userId}
       IN  IF user = {}
           THEN /\ loc' = [loc EXCEPT ![p] =
                             [IdleLoc EXCEPT !.handler = "post", !.userId = userId]]
                /\ Respond(p, 400, {})
           ELSE /\ loc' = [loc EXCEPT ![p] =
                             [IdleLoc EXCEPT !.handler = "post", !.userId = userId,
                                             !.user = user,
                                             !.stateId = (CHOOSE u \in user : TRUE).selectedState,
                                             !.soilTypeId = (CHOOSE u \in user : TRUE).selectedSoilType]]
                /\ pc' = [pc EXCEPT ![p] = "generate.delete"]
                /\ resp' = resp
    /\ hist' = [hist EXCEPT ![p].at = now,
                            ![p].before = {r.id : r \in {x \in cropRecommendations : x.userId = userId}}]
    /\ UNCHANGED << tables, nextId, now, ticks >>

\* storage.ts:56-61  getUser: the users row; the handler answers 400 when there
\* is none or its selectedState is not set (routes.ts:103-105)
PostGenerate(p, userId) ==
    /\ CanStart(p)
    /\ started' = started + 1
    /\ LET user == {u \in users : u.id = userId}
       IN  /\ loc' = [loc EXCEPT ![p] =
                        [IdleLoc EXCEPT !.handler = "post", !.userId = userId, !.user = user]]
           /\ IF \E u \in user : Truthy(u.selectedState)
              THEN /\ pc' = [pc EXCEPT ![p] = "getUser.state"]
                   /\ resp' = resp
              ELSE Respond(p, 400, {})
    /\ hist' = [hist EXCEPT ![p].at = now,
                            ![p].before = {r.id : r \in {x \in cropRecommendations : x.userId = userId}}]
    /\ UNCHANGED << tables, nextId, now, ticks >>

\* storage.ts:62-72  the state row of user.selectedState: when there is one,
\* getUser returns the user with selectedState replaced by the state's name;
\* routes.ts:103-111  the check, then the call with user.selectedState
GetUserState(p) ==
    /\ pc[p] = "getUser.state"
    /\ LET u == CHOOSE u \in loc[p].user : TRUE
           state == {s \in states : s.id = u.selectedState}
           user == IF state # {}
                   THEN [u EXCEPT !.selectedState = (CHOOSE s \in state : TRUE).name]
                   ELSE u
       IN  IF ~Truthy(user.selectedState) \/ ~Truthy(user.selectedSoilType)
           THEN /\ Respond(p, 400, {})
                /\ loc' = loc
           ELSE /\ loc' = [loc EXCEPT ![p].user = {user},
                                      ![p].stateId = user.selectedState,
                                      ![p].soilTypeId = user.selectedSoilType]
                /\ pc' = [pc EXCEPT ![p] = "generate.delete"]
                /\ resp' = resp
    /\ UNCHANGED << tables, nextId, now, ticks, started, hist >>

\* GenerateDelete without a condition: every row goes
GenerateDeleteAll(p) ==
    /\ pc[p] = "generate.delete"
    /\ cropRecommendations' = {}
    /\ pc' = [pc EXCEPT ![p] = "generate.crops"]
    /\ hist' = [hist EXCEPT ![p].deleted = TRUE]
    /\ UNCHANGED << users, states, soilTypes, crops, weatherData,
                    nextId, now, ticks, started, loc, resp >>

\* GenerateDelete with the condition negated: the rows of the other users go
GenerateDeleteOfOthers(p) ==
    /\ pc[p] = "generate.delete"
    /\ cropRecommendations' = {r \in cropRecommendations : r.userId = loc[p].userId}
    /\ pc' = [pc EXCEPT ![p] = "generate.crops"]
    /\ hist' = [hist EXCEPT ![p].deleted = TRUE]
    /\ UNCHANGED << users, states, soilTypes, crops, weatherData,
                    nextId, now, ticks, started, loc, resp >>

\* GenerateDelete with a condition no row meets
GenerateDeleteNothing(p) ==
    /\ pc[p] = "generate.delete"
    /\ pc' = [pc EXCEPT ![p] = "generate.crops"]
    /\ hist' = [hist EXCEPT ![p].deleted = TRUE]
    /\ UNCHANGED << tables, nextId, now, ticks, started, loc, resp >>

\* storage.ts:490  delete(cropRecommendations).where(userId = userId)
GenerateDelete(p) ==
    /\ pc[p] = "generate.delete"
    /\ cropRecommendations' = {r \in cropRecommendations : r.userId # loc[p].userId}
    /\ pc' = [pc EXCEPT ![p] = "generate.crops"]
    /\ hist' = [hist EXCEPT ![p].deleted = TRUE]
    /\ UNCHANGED << users, states, soilTypes, crops, weatherData,
                    nextId, now, ticks, started, loc, resp >>

\* storage.ts:492  getAllCrops(); with no crop the loop is skipped and
\* values([]) throws (routes.ts:76-82, 114-117: answered 500)
GenerateCrops(p) ==
    /\ pc[p] = "generate.crops"
    /\ IF crops = {}
       THEN /\ Respond(p, 500, {})
            /\ loc' = loc
       ELSE /\ loc' = [loc EXCEPT ![p].rows = crops]
            /\ pc' = [pc EXCEPT ![p] = "generate.soil"]
            /\ resp' = resp
    /\ UNCHANGED << tables, nextId, now, ticks, started, hist >>

\* storage.ts:495-518  the loop.  Its selects (one per crop, all of the row with
\* id = soilTypeId) read the same thing: soil-type rows are never changed or
\* deleted, and an id the caller can hold is that of a row already written.
\* values([]) throws when the loop pushed nothing
GenerateSoil(p) ==
    /\ pc[p] = "generate.soil"
    /\ \E rnd \in Draws({c.id : c \in loc[p].rows}) :
         LET soilType == {s \in soilTypes : s.id = loc[p].soilTypeId}
             recommendations == Recommendations(loc[p].userId, loc[p].stateId,
                                   loc[p].soilTypeId, loc[p].rows, soilType, rnd)
         IN  IF recommendations = {}
             THEN /\ Respond(p, 500, {})
                  /\ loc' = [loc EXCEPT ![p].rows = {}]
             ELSE /\ loc' = [loc EXCEPT ![p].rows = recommendations]
                  /\ pc' = [pc EXCEPT ![p] = "generate.insert"]
                  /\ resp' = resp
    /\ UNCHANGED << tables, nextId, now, ticks, started, hist >>

\* GenerateInsert replacing the user's rows in the statement that inserts
GenerateInsertReplacing(p) ==
    /\ pc[p] = "generate.insert"
    /\ nextId' = nextId + 1
    /\ IF \A r \in loc[p].rows : RecommendationKeysExist(r)
       THEN /\ cropRecommendations' =
                   {r \in cropRecommendations : r.userId # loc[p].userId}
                   \cup RecommendationRows(nextId, loc[p].rows)
            /\ Respond(p, 200, IF loc[p].handler = "patch" THEN loc[p].user
                               ELSE RecommendationRows(nextId, loc[p].rows))
            /\ hist' = [hist EXCEPT
                          ![p].wrote = {r.id : r \in RecommendationRows(nextId, loc[p].rows)},
                          ![p].seenDeleted = {q \in Procs \ {p} : hist[q].deleted}]
       ELSE /\ cropRecommendations' = cropRecommendations
            /\ hist' = hist
            /\ Respond(p, 500, {})
    /\ loc' = [loc EXCEPT ![p].rows = {}]
    /\ UNCHANGED << users, states, soilTypes, crops, weatherData, now, ticks, started >>

\* storage.ts:518  insert(cropRecommendations).values(recommendations): all rows
\* or, on a foreign-key violation, none; routes.ts:75, 113 the response
GenerateInsert(p) ==
    /\ pc[p] = "generate.insert"
    /\ nextId' = nextId + 1
    /\ IF \A r \in loc[p].rows : RecommendationKeysExist(r)
       THEN /\ cropRecommendations' =
                   cropRecommendations \cup RecommendationRows(nextId, loc[p].rows)
            /\ Respond(p, 200, IF loc[p].handler = "patch" THEN loc[p].user
                               ELSE RecommendationRows(nextId, loc[p].rows))
            /\ hist' = [hist EXCEPT
                          ![p].wrote = {r.id : r \in RecommendationRows(nextId, loc[p].rows)},
                          ![p].seenDeleted = {q \in Procs \ {p} : hist[q].deleted}]
       ELSE /\ cropRecommendations' = cropRecommendations
            /\ hist' = hist
            /\ Respond(p, 500, {})
    /\ loc' = [loc EXCEPT ![p].rows = {}]
    /\ UNCHANGED << users, states, soilTypes, crops, weatherData, now, ticks, started >>

(***************************************************************************)
(* Reads: GET /api/states, GET /api/soil-types/:stateId,                   *)
(* GET /api/crop-recommendations, GET /api/auth/user.                      *)
(***************************************************************************)
\* routes.ts:37-40, storage.ts:104-106  select().from(states)
GetStates(p) ==
    /\ CanStart(p)
    /\ started' = started + 1
    /\ loc' = [loc EXCEPT ![p] = [IdleLoc EXCEPT !.handler = "states"]]
    /\ Respond(p, 200, states)
    /\ hist' = [hist EXCEPT ![p].at = now]
    /\ UNCHANGED << tables, nextId, now, ticks >>

\* getSoilTypesByState without the where clause
getSoilTypesByStateAll(stateId) == soilTypes

\* storage.ts:170-172  select().from(soilTypes).where(eq(soilTypes.stateId, stateId))
getSoilTypesByState(stateId) == {s \in soilTypes : s.stateId = stateId}

\* routes.ts:49-53
GetSoilTypes(p, stateId) ==
    /\ CanStart(p)
    /\ started' = started + 1
    /\ loc' = [loc EXCEPT ![p] = [IdleLoc EXCEPT !.handler = "soilTypes", !.stateId = stateId]]
    /\ Respond(p, 200, getSoilTypesByState(stateId))
    /\ hist' = [hist EXCEPT ![p].at = now]
    /\ UNCHANGED << tables, nextId, now, ticks >>

\* storage.ts:531-543  the flat record of one joined row
Joined(r, c, s, t) ==
    [id |-> r.id, userId |-> r.userId, cropId |-> r.cropId, stateId |-> r.stateId,
     soilTypeId |-> r.soilTypeId, compatibilityScore |-> r.compatibilityScore,
     recommendations |-> r.recommendations, crop |-> c, state |-> s, soilType |-> t]

\* storage.ts:522-527  the inner joins on crops.id, states.id and soilTypes.id
JoinedRows(rows) ==
    UNION { UNION { UNION { { Joined(r, c, s, t)
                              : t \in {x \in soilTypes : x.id = r.soilTypeId} }
                            : s \in {x \in states : x.id = r.stateId} }
                    : c \in {x \in crops : x.id = r.cropId} }
            : r \in rows }

\* getUserCropRecommendations without the where clause
getUserCropRecommendationsOfAll(userId) == JoinedRows(cropRecommendations)

\* storage.ts:521-544  ... .where(eq(cropRecommendations.userId, userId))
getUserCropRecommendations(userId) ==
    JoinedRows({r \in cropRecommendations : r.userId = userId})

\* routes.ts:87-91
GetRecommendations(p, userId) ==
    /\ CanStart(p)
    /\ started' = started + 1
    /\ loc' = [loc EXCEPT ![p] = [IdleLoc EXCEPT !.handler = "recommendations", !.userId = userId]]
    /\ Respond(p, 200, getUserCropRecommendations(userId))
    /\ hist' = [hist EXCEPT ![p].at = now]
    /\ UNCHANGED << tables, nextId, now, ticks >>

\* routes.ts:26-30, storage.ts:56-61  the users row; without a row, or without
\* a selectedState in it, getUser returns what it read and the handler answers
AuthUser(p, userId) ==
    /\ CanStart(p)
    /\ started' = started + 1
    /\ LET user == {u \in users : u.id = userId}
       IN  /\ loc' = [loc EXCEPT ![p] =
                        [IdleLoc EXCEPT !.handler = "authUser", !.userId = userId, !.user = user]]
           /\ IF \E u \in user : Truthy(u.selectedState)
              THEN /\ pc' = [pc EXCEPT ![p] = "authUser.state"]
                   /\ resp' = resp
              ELSE Respond(p, 200, user)
    /\ hist' = [hist EXCEPT ![p].at = now]
    /\ UNCHANGED << tables, nextId, now, ticks >>

\* storage.ts:62-72  the states row of user.selectedState: with one, the user
\* is returned with selectedState replaced by the state's name; routes.ts:30
AuthUserState(p) ==
    /\ pc[p] = "authUser.state"
    /\ LET u == CHOOSE u \in loc[p].user : TRUE
           state == {s \in states : s.id = u.selectedState}
           user == IF state # {}
                   THEN [u EXCEPT !.selectedState = (CHOOSE s \in state : TRUE).name]
                   ELSE u
       IN  /\ Respond(p, 200, {user})
           /\ loc' = [loc EXCEPT ![p].user = {user}]
    /\ UNCHANGED << tables, nextId, now, ticks, started, hist >>

(***************************************************************************)
(* The client: the LocationSelector component.  Its state, selectedState   *)
(* and selectedSoilType, is kept in loc[p].stateId and loc[p].soilTypeId,  *)
(* the data of its last mutate call in loc[p].body; hist[p].pickedFor is   *)
(* the region that was selected when the soil type was set, hist[p].reset  *)
(* tells that a change of region has emptied a soil type.                  *)
(***************************************************************************)
\* storage.ts:56-73  what getUser returns for the users row of userId
getUser(userId) ==
    { IF Truthy(u.selectedState) /\ \E s \in states : s.id = u.selectedState
      THEN [u EXCEPT !.selectedState = (CHOOSE s \in states : s.id = u.selectedState).name]
      ELSE u : u \in {x \in users : x.id = userId} }

\* x || "" for a string or null/undefined x
OrEmpty(x) == IF Truthy(x) THEN x ELSE ""

\* LocationSelector.tsx:29-33  the component mounts: its state starts from the
\* profile of useAuth (GET /api/auth/user), or empty without one
LocationSelector(p, userId) ==
    /\ CanStart(p)
    /\ started' = started + 1
    /\ LET user == getUser(userId)
           selectedState == IF user = {} THEN ""
                            ELSE OrEmpty((CHOOSE u \in user : TRUE).selectedState)
           selectedSoilType == IF user = {} THEN ""
                               ELSE OrEmpty((CHOOSE u \in user : TRUE).selectedSoilType)
       IN  /\ loc' = [loc EXCEPT ![p] =
                        [IdleLoc EXCEPT !.handler = "LocationSelector", !.userId = userId,
                                        !.user = user,
                                        !.stateId = selectedState,
                                        !.soilTypeId = selectedSoilType]]
           /\ hist' = [hist EXCEPT ![p].at = now,
                                   ![p].pickedFor = IF selectedSoilType = "" THEN NULL
                                                    ELSE selectedState]
    /\ pc' = [pc EXCEPT ![p] = "mounted"]
    /\ UNCHANGED << tables, nextId, now, ticks, resp >>

\* the component in slot p is on the page; its mutation may be pending
Mounted(p) == pc[p] \in {"mounted", "pending"}

\* handleStateChange without the reset of the soil type
handleStateChangeKeepingSoil(p, stateId) ==
    /\ Mounted(p)
    /\ loc' = [loc EXCEPT ![p].stateId = stateId]
    /\ UNCHANGED << tables, nextId, now, ticks, started, pc, resp, hist >>

\* LocationSelector.tsx:81-84, 115-117  the region select changes
handleStateChange(p, stateId) ==
    /\ Mounted(p)
    /\ loc' = [loc EXCEPT ![p].stateId = stateId, ![p].soilTypeId = ""]
    /\ hist' = [hist EXCEPT ![p].pickedFor = NULL,
                            ![p].reset = hist[p].reset \/ loc[p].soilTypeId # ""]
    /\ UNCHANGED << tables, nextId, now, ticks, started, pc, resp >>

\* LocationSelector.tsx:141-144  the soil select changes; it is disabled
\* without a region
setSelectedSoilType(p, soilTypeId) ==
    /\ Mounted(p)
    /\ loc[p].stateId # ""
    /\ loc' = [loc EXCEPT ![p].soilTypeId = soilTypeId]
    /\ hist' = [hist EXCEPT ![p].pickedFor = loc[p].stateId]
    /\ UNCHANGED << tables, nextId, now, ticks, started, pc, resp >>

\* LocationSelector.tsx:86-100, 171-173  a click on Update (the button is
\* disabled while the mutation is pending): without a region or a soil type
\* the handler returns after a toast, otherwise it calls mutate
handleUpdateLocation(p) ==
    /\ pc[p] = "mounted"
    /\ IF loc[p].stateId = "" \/ loc[p].soilTypeId = ""
       THEN UNCHANGED << pc, loc >>
       ELSE /\ pc' = [pc EXCEPT ![p] = "pending"]
            /\ loc' = [loc EXCEPT ![p].body = [selectedState |-> Str(loc[p].stateId),
                                               selectedSoilType |-> Str(loc[p].soilTypeId)]]
    /\ UNCHANGED << tables, nextId, now, ticks, started, resp, hist >>

\* LocationSelector.tsx:49-79  the mutation settles (onSuccess or onError: a
\* toast, and queries invalidated; the state of the component is not touched)
MutationSettled(p) ==
    /\ pc[p] = "pending"
    /\ pc' = [pc EXCEPT ![p] = "mounted"]
    /\ UNCHANGED << tables, nextId, now, ticks, started, loc, resp, hist >>

(***************************************************************************)
(* The client: the CropCard component.                                     *)
(***************************************************************************)
\* getCompatibilityStatus with 'Very Good' starting at 75
getCompatibilityStatusFrom75(score) ==
    IF score >= 90 THEN "Excellent"
    ELSE IF score >= 75 THEN "Very Good"
    ELSE IF score >= 70 THEN "Good"
    ELSE IF score >= 60 THEN "Fair"
    ELSE "Poor"

\* CropCard.tsx:69-75  the label of a score
getCompatibilityStatus(score) ==
    IF score >= 90 THEN "Excellent"
    ELSE IF score >= 80 THEN "Very Good"
    ELSE IF score >= 70 THEN "Good"
    ELSE IF score >= 60 THEN "Fair"
    ELSE "Poor"

\* CropCard.tsx:42, 90  the label the card of a row of GET
\* /api/crop-recommendations shows
CardLabel(recommendation) == getCompatibilityStatus(recommendation.compatibilityScore)

(***************************************************************************)
(* Weather: GET /api/weather/:stateId, getWeatherByState,                  *)
(* updateWeatherData.                                                      *)
(***************************************************************************)
\* (x).toFixed(1) of x = r * k / 1000 + base, as a number of tenths: the
\* nearest tenth
ToFixed1(r, k, base) == (r * k * 10 + 500) \div 1000 + base * 10

\* routes.ts:135
conditionNames == << "Sunny", "Partly Cloudy", "Cloudy", "Light Rain" >>

\* routes.ts:129-143  freshWeatherData; rnd[1..5] are the five draws
FreshWeatherData(stateId, rnd) ==
    [stateId |-> stateId,
     temperature |-> ToFixed1(rnd[1], 15, 20),
     humidity |-> (rnd[2] * 40) \div 1000 + 40,
     windSpeed |-> ToFixed1(rnd[3], 10, 5),
     visibility |-> ToFixed1(rnd[4], 5, 5),
     conditions |-> conditionNames[(rnd[5] * 4) \div 1000 + 1],
     forecast |-> "Today,Tomorrow,Wed,Thu,Fri"]

\* NeedsRefresh with the comparison turned round
NeedsRefreshWhenYounger(weather, dateNow) ==
    \/ weather = {}
    \/ \E w \in weather : w.lastUpdated # NoTime /\ dateNow - w.lastUpdated < StaleAfterMs

\* NeedsRefresh refreshing from one hour on
NeedsRefreshFromOneHour(weather, dateNow) ==
    \/ weather = {}
    \/ \E w \in weather : w.lastUpdated # NoTime /\ dateNow - w.lastUpdated >= StaleAfterMs

\* routes.ts:127  !weather || (weather.lastUpdated && Date.now() - lastUpdated > 3600000)
NeedsRefresh(weather, dateNow) ==
    \/ weather = {}
    \/ \E w \in weather : w.lastUpdated # NoTime /\ dateNow - w.lastUpdated > StaleAfterMs

\* WeatherRow with last_updated left at the epoch
WeatherRowUndated(b, stateId, data, dbNow) ==
    [id |-> NewId(b, "w"), stateId |-> stateId, temperature |-> data.temperature,
     humidity |-> data.humidity, windSpeed |-> data.windSpeed,
     visibility |-> data.visibility, conditions |-> data.conditions,
     forecast |-> data.forecast, lastUpdated |-> 0]

\* storage.ts:593-596  the row insert(weatherData).values({...data, stateId})
\* writes; last_updated takes its default, now()
WeatherRow(b, stateId, data, dbNow) ==
    [id |-> NewId(b, "w"), stateId |-> stateId, temperature |-> data.temperature,
     humidity |-> data.humidity, windSpeed |-> data.windSpeed,
     visibility |-> data.visibility, conditions |-> data.conditions,
     forecast |-> data.forecast, lastUpdated |-> dbNow]

\* storage.ts:586-589  update(weatherData).set({...data, lastUpdated}).where(stateId = stateId)
UpdatedWeather(w, data, lastUpdated) ==
    [w EXCEPT !.stateId = data.stateId, !.temperature = data.temperature,
              !.humidity = data.humidity, !.windSpeed = data.windSpeed,
              !.visibility = data.visibility, !.conditions = data.conditions,
              !.forecast = data.forecast, !.lastUpdated = lastUpdated]

\* routes.ts:121-148, storage.ts:577-580: the first row of weather_data with the
\* stateId (any of them, when there are several); a fresh one is answered as it
\* is, otherwise new values are drawn and updateWeatherData is called
GetWeather(p, stateId) ==
    /\ CanStart(p)
    /\ started' = started + 1
    /\ \E weather \in IF \E w \in weatherData : w.stateId = stateId
                      THEN {{w} : w \in {x \in weatherData : x.stateId = stateId}}
                      ELSE {{}} :
         /\ hist' = [hist EXCEPT ![p].read = weather, ![p].at = now]
         /\ IF NeedsRefresh(weather, now)
            THEN \E rnd \in Draws(1..5) :
                   /\ loc' = [loc EXCEPT ![p] =
                                [IdleLoc EXCEPT !.handler = "weather", !.stateId = stateId,
                                                !.rows = {FreshWeatherData(stateId, rnd)}]]
                   /\ pc' = [pc EXCEPT ![p] = "updateWeatherData"]
                   /\ resp' = resp
            ELSE /\ loc' = [loc EXCEPT ![p] =
                              [IdleLoc EXCEPT !.handler = "weather", !.stateId = stateId]]
                 /\ Respond(p, 200, weather)
    /\ UNCHANGED << tables, nextId, now, ticks >>

\* storage.ts:583-585  const existing = await this.getWeatherByState(stateId);
\* storage.ts:588  new Date() is taken when the update is built
WeatherExisting(p) ==
    /\ pc[p] = "updateWeatherData"
    /\ IF \E w \in weatherData : w.stateId = loc[p].stateId
       THEN /\ pc' = [pc EXCEPT ![p] = "updateWeatherData.update"]
            /\ loc' = [loc EXCEPT ![p].ts = now]
       ELSE /\ pc' = [pc EXCEPT ![p] = "updateWeatherData.insert"]
            /\ loc' = loc
    /\ UNCHANGED << tables, nextId, now, ticks, started, resp, hist >>

\* storage.ts:586-591  every row of the stateId is updated; the first one
\* returned is the answer (routes.ts:148)
WeatherUpdate(p) ==
    /\ pc[p] = "updateWeatherData.update"
    /\ LET data == CHOOSE d \in loc[p].rows : TRUE
           hit == {w \in weatherData : w.stateId = loc[p].stateId}
           updated == {UpdatedWeather(w, data, loc[p].ts) : w \in hit}
       IN  /\ weatherData' = (weatherData \ hit) \cup updated
           /\ hist' = [hist EXCEPT ![p].wrote = {w.id : w \in updated}]
           /\ \E first \in IF updated = {} THEN {{}} ELSE {{w} : w \in updated} :
                Respond(p, 200, first)
    /\ loc' = [loc EXCEPT ![p].rows = {}]
    /\ UNCHANGED << users, states, soilTypes, crops, cropRecommendations,
                    nextId, now, ticks, started >>

\* storage.ts:593-597  part_000:83  stateId references states.id: the insert
\* throws for a stateId that is no state row (routes.ts:149-152: answered 500)
WeatherInsert(p) ==
    /\ pc[p] = "updateWeatherData.insert"
    /\ nextId' = nextId + 1
    /\ LET data == CHOOSE d \in loc[p].rows : TRUE
           inserted == WeatherRow(nextId, loc[p].stateId, data, now)
       IN  IF \E s \in states : s.id = loc[p].stateId
           THEN /\ weatherData' = weatherData \cup {inserted}
                /\ hist' = [hist EXCEPT ![p].wrote = {inserted.id}]
                /\ Respond(p, 200, {inserted})
           ELSE /\ weatherData' = weatherData
                /\ hist' = hist
                /\ Respond(p, 500, {})
    /\ loc' = [loc EXCEPT ![p].rows = {}]
    /\ UNCHANGED << users, states, soilTypes, crops, cropRecommendations,
                    now, ticks, started >>

(***************************************************************************)
(* Errors: a database statement that throws (connection lost, timeout).    *)
(***************************************************************************)
\* the routes of routes.ts
Handlers == {"init", "authUser", "states", "soilTypes", "patch", "recommendations",
             "post", "weather"}

\* the statement request p is about to run throws: the catch block of its
\* handler answers 500 (routes.ts:19-21, 31-33, 41-43, 54-56, 76-82, 92-94,
\* 114-116, 149-151; in PATCH the error is no ZodError); a seeding function
\* called on its own ends by throwing
StatementFails(p) ==
    /\ pc[p] \notin {"idle", "done"}
    /\ Respond(p, 500, {})
    /\ hist' = [hist EXCEPT ![p].failed = TRUE]
    /\ UNCHANGED << tables, nextId, now, ticks, started, loc >>

\* the first statement of a request throws; a PATCH gets that far with a body
\* that passes the schema
FirstStatementFails(p, handler, userId) ==
    /\ CanStart(p)
    /\ started' = started + 1
    /\ loc' = [loc EXCEPT ![p] =
                 [IdleLoc EXCEPT !.handler = handler, !.userId = userId,
                                 !.body = IF handler = "patch"
                                          THEN [selectedState |-> Str("nowhere"),
                                                selectedSoilType |-> Str("nosoil")]
                                          ELSE NoBody]]
    /\ Respond(p, 500, {})
    /\ hist' = [hist EXCEPT ![p].at = now, ![p].failed = TRUE]
    /\ UNCHANGED << tables, nextId, now, ticks >>

\* the clock moves on
TickSteps == {StaleAfterMs - 1, StaleAfterMs, StaleAfterMs + 1}

Tick(d) ==
    /\ ticks < MaxTicks
    /\ ticks' = ticks + 1
    /\ now' = now + d
    /\ UNCHANGED << tables, nextId, started, pc, loc, resp, hist >>

(***************************************************************************)
(* Initial states.                                                         *)
(***************************************************************************)
UserIds == {"u1", "u2"}

\* the id of a session whose users row is gone
UnknownUser == "u0"

InitProcs ==
    /\ now = 0
    /\ ticks = 0
    /\ started = 0
    /\ pc = [p \in Procs |-> "idle"]
    /\ loc = [p \in Procs |-> IdleLoc]
    /\ resp = [p \in Procs |-> NoResp]
    /\ hist = [p \in Procs |-> NoHist]

\* a database just created: every table empty
InitEmpty ==
    /\ users = {}
    /\ states = {}
    /\ soilTypes = {}
    /\ crops = {}
    /\ cropRecommendations = {}
    /\ weatherData = {}
    /\ nextId = 1
    /\ InitProcs

\* the database after one GET /api/init on an empty database and the first
\* login of every user, with claims that carry neither email nor name
\* (part_000:33-38: no selection yet)
InitSeeded ==
    /\ users = {[id |-> u, email |-> NULL, firstName |-> NULL,
                 selectedState |-> NULL, selectedSoilType |-> NULL] : u \in UserIds}
    /\ states = StateRows(1)
    /\ soilTypes = SoilRows(2, SoilTypeData(StateRows(1)))
    /\ crops = CropRows(3)
    /\ cropRecommendations = {}
    /\ weatherData = {}
    /\ nextId = 4
    /\ InitProcs

\* names of crops the lookup tables of the advice do not list
ExtraCropNames == {"Maize", "constructor"}

\* the seeded database with one more crops row, added by other means than the
\* routes (seedCrops writes the four of cropData and nothing else inserts)
InitExtraCrop ==
    /\ users = {[id |-> u, email |-> NULL, firstName |-> NULL,
                 selectedState |-> NULL, selectedSoilType |-> NULL] : u \in UserIds}
    /\ states = StateRows(1)
    /\ soilTypes = SoilRows(2, SoilTypeData(StateRows(1)))
    /\ \E n \in ExtraCropNames :
         crops = CropRows(3) \cup
                 {[id |-> NewId(4, "1"), name |-> n, soilCompatibility |-> << "Alluvial Soil" >>]}
    /\ cropRecommendations = {}
    /\ weatherData = {}
    /\ nextId = 5
    /\ InitProcs

(***************************************************************************)
(* Request inputs.                                                         *)
(***************************************************************************)
SampleCodes == {"PB", "HR"}

SampleSoils == {<< "PB", "Alluvial Soil" >>, << "HR", "Sandy Soil" >>}

\* the ids of the sampled regions, and an id no row has
StateIdInputs == {s.id : s \in {x \in states : x.code \in SampleCodes}} \cup {"nowhere"}

\* the ids of the sampled soil types, and an id no row has
SoilIdInputs ==
    LET sampled == {s \in states : \E c \in SampleSoils : c[1] = s.code}
    IN  {t.id : t \in {x \in soilTypes :
                         \E s \in sampled : s.id = x.stateId /\ << s.code, x.name >> \in SampleSoils}}
        \cup {"nosoil"}

\* LocationSelector.tsx:128-132  the options of the region select: the rows of
\* GET /api/states, of which those of the sampled regions are picked here
StateOptions == {s.id : s \in {x \in states : x.code \in SampleCodes}}

\* LocationSelector.tsx:42-46, 162-166  the options of the soil select: the
\* rows of GET /api/soil-types/<selectedState>
SoilOptions(p) == {s.id : s \in getSoilTypesByState(loc[p].stateId)}

\* a field of a PATCH body: a string (possibly empty), a number, or missing
FieldInputs(strings) ==
    {Str(s) : s \in strings \cup {""}} \cup {[t |-> "number", s |-> "7"], [t |-> "undefined", s |-> ""]}

LocationInputs ==
    [selectedState : FieldInputs(StateIdInputs), selectedSoilType : FieldInputs(SoilIdInputs)]

(***************************************************************************)
(* Next-state relations.                                                   *)
(***************************************************************************)
SeedStep(p) ==
    \/ SeedStatesInsert(p)
    \/ SeedSoilCheck(p)
    \/ SeedSoilStates(p)
    \/ SeedSoilInsert(p)
    \/ SeedCropsCheck(p)
    \/ SeedCropsInsert(p)

GenerateStep(p) ==
    \/ GetUserState(p)
    \/ GenerateDelete(p)
    \/ GenerateCrops(p)
    \/ GenerateSoil(p)
    \/ GenerateInsert(p)

WeatherStep(p) ==
    \/ WeatherExisting(p)
    \/ WeatherUpdate(p)
    \/ WeatherInsert(p)

StartPatch(p) ==
    CanStart(p) /\ \E u \in users : \E body \in LocationInputs : PatchLocation(p, u.id, body)

StartPost(p) ==
    CanStart(p) /\ \E userId \in {u.id : u \in users} \cup {UnknownUser} : PostGenerate(p, userId)

StartWeather(p) == CanStart(p) /\ \E stateId \in StateIdInputs : GetWeather(p, stateId)

StartSoilTypes(p) == CanStart(p) /\ \E stateId \in StateIdInputs : GetSoilTypes(p, stateId)

StartRecommendations(p) ==
    CanStart(p) /\ \E userId \in {u.id : u \in users} \cup {UnknownUser} : GetRecommendations(p, userId)

StartAuthUser(p) ==
    CanStart(p) /\ \E userId \in {u.id : u \in users} \cup {UnknownUser} : AuthUser(p, userId)

\* the data of a login: id, email and first name, and no selection field
UpsertInputs ==
    [id : UserIds \cup {UnknownUser}, email : {NULL, "asha@example.org"}, firstName : {"Asha", "Ravi"}]

StartUpsertUser(p) == CanStart(p) /\ \E userData \in UpsertInputs : UpsertUser(p, userData)

AdvanceClock == \E d \in TickSteps : Tick(d)

\* concurrent GET /api/init requests on a database just created
NextSeed == \E p \in Procs : InitStart(p) \/ SeedStep(p)

SpecSeed == InitEmpty /\ [][NextSeed]_vars

\* concurrent PATCH /api/user/location and POST .../generate requests
NextRec == \E p \in Procs : StartPatch(p) \/ StartPost(p) \/ GenerateStep(p)

SpecRec == InitSeeded /\ [][NextRec]_vars

\* concurrent GET /api/weather/:stateId requests, and the clock
NextWeather == (\E p \in Procs : StartWeather(p) \/ WeatherStep(p)) \/ AdvanceClock

SpecWeather == InitSeeded /\ [][NextWeather]_vars

\* every handler, one request at a time: a request starts when none is running
NextSeq ==
    \/ \E p \in Procs : Quiet /\ InitStart(p)
    \/ \E p \in Procs : Quiet /\ StartPatch(p)
    \/ \E p \in Procs : Quiet /\ StartPost(p)
    \/ \E p \in Procs : Quiet /\ StartWeather(p)
    \/ \E p \in Procs : Quiet /\ GetStates(p)
    \/ \E p \in Procs : Quiet /\ StartSoilTypes(p)
    \/ \E p \in Procs : Quiet /\ StartRecommendations(p)
    \/ \E p \in Procs : Quiet /\ StartAuthUser(p)
    \/ \E p \in Procs : SeedStep(p) \/ GenerateStep(p) \/ WeatherStep(p) \/ AuthUserState(p)
    \/ AdvanceClock

SpecSeq == (InitEmpty \/ InitSeeded) /\ [][NextSeq]_vars

\* the seeding functions called one after another, on their own or by
\* GET /api/init, in any order, with statements that may throw
NextSeedOps ==
    \/ \E p \in Procs : Quiet /\ InitStart(p)
    \/ \E p \in Procs : Quiet /\ CallSeedStates(p)
    \/ \E p \in Procs : Quiet /\ CallSeedSoilTypes(p)
    \/ \E p \in Procs : Quiet /\ CallSeedCrops(p)
    \/ \E p \in Procs : SeedStep(p)
    \/ \E p \in Procs : StatementFails(p)

SpecSeedOps == InitEmpty /\ [][NextSeedOps]_vars

\* requests served one after another as in SpecSeq, with statements that may
\* throw
NextOps ==
    \/ NextSeq
    \/ \E p \in Procs : StatementFails(p)
    \/ \E p \in Procs : Quiet /\ \E handler \in Handlers : FirstStatementFails(p, handler, UnknownUser)

SpecOps == (InitEmpty \/ InitSeeded) /\ [][NextOps]_vars

\* the statements of request p that are still to run
HandlerStep(p) == SeedStep(p) \/ GenerateStep(p) \/ WeatherStep(p) \/ AuthUserState(p)

\* the bodies of LocationInputs that name the first sampled region, or none
SampledLocationInputs ==
    {body \in LocationInputs :
        body.selectedState.t = "string" =>
            \/ body.selectedState.s = ""
            \/ \E s \in states : s.id = body.selectedState.s /\ s.code = "PB"}

StartPatchSampled(p) ==
    CanStart(p) /\ \E body \in SampledLocationInputs : PatchLocation(p, "u1", body)

\* the generator over a crops table with a crop the advice does not list: one
\* request at a time, PATCH and POST .../generate of the users
NextAdvice ==
    \/ \E p \in Procs : Quiet /\ StartPatch(p)
    \/ \E p \in Procs : Quiet /\ StartPost(p)
    \/ \E p \in Procs : GenerateStep(p)

SpecAdvice == InitExtraCrop /\ [][NextAdvice]_vars

\* logins, changes of location and regenerations, one at a time
NextUsers ==
    \/ \E p \in Procs : Quiet /\ StartUpsertUser(p)
    \/ \E p \in Procs : Quiet /\ StartPatch(p)
    \/ \E p \in Procs : Quiet /\ StartPost(p)
    \/ \E p \in Procs : GenerateStep(p)

SpecUsers == InitSeeded /\ [][NextUsers]_vars

\* the LocationSelector of a user, mounted before or after a PATCH
\* /api/user/location of the first user has run on the server
NextSelector ==
    \/ \E p \in Procs : Quiet /\ StartPatchSampled(p)
    \/ \E p \in Procs : GenerateDelete(p)
    \/ \E p \in Procs : GenerateCrops(p)
    \/ \E p \in Procs : GenerateSoil(p)
    \/ \E p \in Procs : GenerateInsert(p)
    \/ \E p \in Procs : Quiet /\ \E userId \in UserIds \cup {UnknownUser} : LocationSelector(p, userId)
    \/ \E p \in Procs : \E stateId \in StateOptions : handleStateChange(p, stateId)
    \/ \E p \in Procs : \E soilTypeId \in SoilOptions(p) : setSelectedSoilType(p, soilTypeId)
    \/ \E p \in Procs : handleUpdateLocation(p)
    \/ \E p \in Procs : MutationSettled(p)

SpecSelector == InitSeeded /\ [][NextSelector]_vars

\* every route, one request at a time, with statements that may throw; the
\* PATCH requests are those of one user with the sampled bodies, and the clock
\* advances by more than one hour
NextHandlers ==
    \/ \E p \in Procs : Quiet /\ InitStart(p)
    \/ \E p \in Procs : Quiet /\ StartAuthUser(p)
    \/ \E p \in Procs : Quiet /\ GetStates(p)
    \/ \E p \in Procs : Quiet /\ StartSoilTypes(p)
    \/ \E p \in Procs : Quiet /\ StartPatchSampled(p)
    \/ \E p \in Procs : Quiet /\ StartRecommendations(p)
    \/ \E p \in Procs : Quiet /\ StartPost(p)
    \/ \E p \in Procs : Quiet /\ StartWeather(p)
    \/ \E p \in Procs : HandlerStep(p)
    \/ \E p \in Procs : StatementFails(p)
    \/ \E p \in Procs : Quiet /\ \E handler \in Handlers : FirstStatementFails(p, handler, UnknownUser)
    \/ Tick(StaleAfterMs + 1)

\* a request that can go on does: the event loop resumes a handler when the
\* statement it awaits has settled
SpecHandlersFair ==
    /\ InitEmpty \/ InitSeeded
    /\ [][NextHandlers]_vars
    /\ \A p \in Procs : WF_vars(HandlerStep(p))

(***************************************************************************)
(* Properties.                                                             *)
(***************************************************************************)
\* the recommendation rows of a user
RowsOf(userId) == {r \in cropRecommendations : r.userId = userId}

Ids(rows) == {r.id : r \in rows}

\* request p called generateCropRecommendations and the call has ended
GenerateEnded(p) ==
    pc[p] = "done" /\ loc[p].handler \in {"patch", "post"} /\ hist[p].deleted

\* request p called generateCropRecommendations and the call returned rows
GenerateReturned(p) == GenerateEnded(p) /\ resp[p].status = 200

\* request p is a GET /api/weather/:stateId that has been answered
WeatherEnded(p) == pc[p] = "done" /\ loc[p].handler = "weather"

\* the snapshot request p read first was younger than one hour
ReadFresh(p) == \E w \in hist[p].read : hist[p].at - w.lastUpdated < StaleAfterMs

\* C1 (as claimed): whatever the ids passed, when a call of
\* generateCropRecommendations has ended the user has exactly one
\* recommendation row per crop of the crops table.
C1_OneRowPerCropForAnyIds ==
    \A p \in Procs :
        GenerateEnded(p) /\ started = p =>
            \A c \in crops :
                Cardinality({r \in RowsOf(loc[p].userId) : r.cropId = c.id}) = 1

\* C1 (amended): when the regionId is the id of a states row and the
\* soilTypeId the id of a soil-type row, a call that has ended has returned and
\* the user has exactly one row per crop; with an id that matches no row the
\* call has thrown and the user has no row at all.
C1_OneRowPerCrop ==
    \A p \in Procs :
        GenerateEnded(p) /\ started = p =>
            IF /\ \E s \in states : s.id = loc[p].stateId
               /\ \E s \in soilTypes : s.id = loc[p].soilTypeId
            THEN /\ resp[p].status = 200
                 /\ \A c \in crops :
                      Cardinality({r \in RowsOf(loc[p].userId) : r.cropId = c.id}) = 1
                 /\ \A r \in RowsOf(loc[p].userId) : \E c \in crops : c.id = r.cropId
            ELSE /\ resp[p].status = 500
                 /\ RowsOf(loc[p].userId) = {}

C1_Witness ==
    \E p \in Procs :
        /\ GenerateReturned(p) /\ started = p
        /\ Cardinality(RowsOf(loc[p].userId)) = Len(cropData)

\* C2: every stored recommendation has an integer score in 50..99, in 80..99
\* exactly when the compatible-soils list of its crop holds the name of its
\* soil type, and in 50..79 otherwise.
C2_ScoreRanges ==
    \A r \in cropRecommendations :
        \A c \in crops : \A s \in soilTypes :
            c.id = r.cropId /\ s.id = r.soilTypeId =>
                /\ r.compatibilityScore \in 50..99
                /\ (r.compatibilityScore \in 80..99) <=>
                       (\E i \in DOMAIN c.soilCompatibility : c.soilCompatibility[i] = s.name)

C2_Witness ==
    /\ \E r \in cropRecommendations : r.compatibilityScore = 99
    /\ \E r \in cropRecommendations : r.compatibilityScore = 80
    /\ \E r \in cropRecommendations : r.compatibilityScore = 79
    /\ \E r \in cropRecommendations : r.compatibilityScore = 50

\* C3: when a second call for the same user, started after the first has
\* returned, has returned too, the user has as many rows as there are crops
\* and none of the rows the first call wrote.
C3_SecondCallReplaces ==
    \A p, q \in Procs :
        /\ p < q /\ started = q
        /\ GenerateReturned(p) /\ GenerateReturned(q)
        /\ loc[p].userId = loc[q].userId
        => /\ Cardinality(RowsOf(loc[q].userId)) = Cardinality(crops)
           /\ Ids(RowsOf(loc[q].userId)) \cap hist[p].wrote = {}
           /\ Ids(RowsOf(loc[q].userId)) = hist[q].wrote

C3_Witness ==
    \E p, q \in Procs :
        /\ p < q /\ started = q
        /\ GenerateReturned(p) /\ GenerateReturned(q)
        /\ loc[p].userId = loc[q].userId
        /\ hist[p].wrote # {}
        /\ Cardinality(RowsOf(loc[q].userId)) = Len(cropData)

\* requests p and q regenerated for the same user, each deleting before the
\* other inserted (delete, delete, insert, insert), and no other request has
\* deleted that user's rows
Raced(p, q) ==
    /\ p # q
    /\ GenerateReturned(p) /\ GenerateReturned(q)
    /\ loc[p].userId = loc[q].userId
    /\ q \in hist[p].seenDeleted /\ p \in hist[q].seenDeleted
    /\ \A o \in Procs \ {p, q} : ~(hist[o].deleted /\ loc[o].userId = loc[p].userId)

\* C4: two regenerations for one user that interleave as delete, delete,
\* insert, insert leave the user with two rows for every crop: twice as many
\* rows as there are crops.
C4_RaceDuplicatesRows ==
    \A p, q \in Procs :
        Raced(p, q) =>
            /\ \A c \in crops :
                 Cardinality({r \in RowsOf(loc[p].userId) : r.cropId = c.id}) = 2
            /\ Cardinality(RowsOf(loc[p].userId)) = 2 * Cardinality(crops)

C4_Witness ==
    \E p, q \in Procs :
        /\ Raced(p, q)
        /\ Cardinality(RowsOf(loc[p].userId)) = 2 * Len(cropData)

\* the number of soil types one seeding writes
SeededSoilCount ==
    LET n[i \in 0..Len(indianStates)] ==
            IF i = 0 THEN 0 ELSE n[i - 1] + Len(getSoilTypesForState(indianStates[i].code))
    IN  n[Len(indianStates)]

\* C5: once a GET /api/init has completed on a database that was empty, the
\* tables hold what one seeding writes, and a later GET /api/init, run after
\* it, inserts nothing: the row counts stay those of one invocation.
C5_SeedingIdempotent ==
    (\E p \in Procs : pc[p] = "done" /\ loc[p].handler = "init") =>
        /\ \A p \in Procs : pc[p] = "done" /\ loc[p].handler = "init" => resp[p].status = 200
        /\ Cardinality(states) = Len(indianStates)
        /\ Cardinality(soilTypes) = SeededSoilCount
        /\ Cardinality(crops) = Len(cropData)

C5_Witness ==
    /\ \A p \in {1, 2} : pc[p] = "done" /\ loc[p].handler = "init" /\ resp[p].status = 200
    /\ nextId = 4
    /\ users = {}
    /\ Cardinality(states) = Len(indianStates)

\* C6: a GET /api/weather/:stateId that finds a snapshot younger than one
\* hour answers that snapshot as stored and writes nothing.
C6_FreshSnapshotReturned ==
    \A p \in Procs :
        WeatherEnded(p) /\ ReadFresh(p) =>
            /\ resp[p] = [status |-> 200, body |-> hist[p].read]
            /\ hist[p].wrote = {}

C6_Witness ==
    \E p \in Procs :
        /\ WeatherEnded(p) /\ ReadFresh(p)
        /\ \E w \in hist[p].read : hist[p].at - w.lastUpdated = StaleAfterMs - 1

\* C7 (as claimed): for a region, in every case other than "a snapshot exists
\* and is younger than one hour" the request writes a snapshot, later than the
\* one it read.
C7_RefreshedUnlessYounger ==
    \A p \in Procs :
        /\ WeatherEnded(p) /\ ~ReadFresh(p)
        /\ \E s \in states : s.id = loc[p].stateId
        =>
            /\ hist[p].wrote # {}
            /\ \A w \in hist[p].read : \A n \in resp[p].body : n.lastUpdated > w.lastUpdated

\* C7 (amended): the request writes a snapshot when the region (a states row)
\* has none and when the stored one is more than one hour old, and the
\* snapshot it answers is then later than the one it read; a snapshot exactly
\* one hour old is answered as stored, and nothing is written.
C7_RefreshedWhenOlder ==
    \A p \in Procs :
        WeatherEnded(p) =>
            /\ \/ hist[p].read = {} /\ \E s \in states : s.id = loc[p].stateId
               \/ \E w \in hist[p].read : hist[p].at - w.lastUpdated > StaleAfterMs
               => /\ resp[p].status = 200
                  /\ hist[p].wrote # {}
                  /\ hist[p].wrote \subseteq Ids(weatherData)
                  /\ Ids(resp[p].body) \subseteq hist[p].wrote
                  /\ \A n \in resp[p].body :
                       /\ n.lastUpdated >= hist[p].at
                       /\ \A w \in hist[p].read : n.lastUpdated > w.lastUpdated
            /\ (\E w \in hist[p].read : hist[p].at - w.lastUpdated = StaleAfterMs)
               => /\ resp[p] = [status |-> 200, body |-> hist[p].read]
                  /\ hist[p].wrote = {}

C7_Witness ==
    /\ \E p \in Procs :
         /\ WeatherEnded(p)
         /\ \E w \in hist[p].read : hist[p].at - w.lastUpdated = StaleAfterMs + 1
         /\ hist[p].wrote # {}
    /\ \E p \in Procs : WeatherEnded(p) /\ hist[p].read = {} /\ hist[p].wrote # {}

\* C8: the weather table holds at most one snapshot row per region.
C8_OneSnapshotPerRegion ==
    \A v, w \in weatherData : v.stateId = w.stateId => v = w

\* C9: a first request for a region without a snapshot stores one dated at the
\* time of the call, and the next request, less than one hour later and with
\* no request in between, is answered from it: the same temperature, and
\* nothing written.
C9_SecondCallSameTemperature ==
    \A p, q \in Procs :
        /\ q = p + 1
        /\ WeatherEnded(p) /\ WeatherEnded(q)
        /\ loc[p].stateId = loc[q].stateId
        /\ hist[p].read = {} /\ resp[p].status = 200
        /\ hist[q].at - hist[p].at < StaleAfterMs
        => /\ resp[q].status = 200
           /\ hist[q].wrote = {}
           /\ \A a \in resp[p].body : \A b \in resp[q].body :
                /\ a.temperature = b.temperature
                /\ a.lastUpdated >= hist[p].at /\ a.lastUpdated <= hist[q].at
                /\ a = b

C9_Witness ==
    \E p, q \in Procs :
        /\ q = p + 1
        /\ WeatherEnded(p) /\ WeatherEnded(q)
        /\ loc[p].stateId = loc[q].stateId
        /\ hist[p].read = {} /\ resp[p].status = 200
        /\ hist[q].at - hist[p].at = StaleAfterMs - 1
        /\ resp[q].body = resp[p].body /\ resp[q].body # {}

\* C10: when a PATCH /api/user/location with selectedState R and
\* selectedSoilType S has been answered with success, the users row holds
\* (R, S), every recommendation row of the user has stateId R and soilTypeId
\* S, and no row from before the request remains.
C10_PatchRegenerates ==
    \A p \in Procs :
        /\ pc[p] = "done" /\ loc[p].handler = "patch" /\ resp[p].status = 200
        /\ started = p
        => /\ \A u \in users :
                u.id = loc[p].userId =>
                    u.selectedState = loc[p].stateId /\ u.selectedSoilType = loc[p].soilTypeId
           /\ resp[p].body = {u \in users : u.id = loc[p].userId}
           /\ RowsOf(loc[p].userId) # {}
           /\ \A r \in RowsOf(loc[p].userId) :
                r.stateId = loc[p].stateId /\ r.soilTypeId = loc[p].soilTypeId
           /\ Ids(RowsOf(loc[p].userId)) \cap hist[p].before = {}

C10_Witness ==
    \E p \in Procs :
        /\ pc[p] = "done" /\ loc[p].handler = "patch" /\ resp[p].status = 200
        /\ started = p
        /\ hist[p].before # {}
        /\ \A r \in RowsOf(loc[p].userId) : r.stateId = loc[p].stateId
        /\ \E q \in Procs : q < p /\ loc[q].userId = loc[p].userId /\ loc[q].stateId # loc[p].stateId

\* the users row of the user of request p
StoredUser(p) == {u \in users : u.id = loc[p].userId}

\* C11 (as claimed): when a POST /api/crop-recommendations/generate has invoked
\* the generator, it has passed the region id and the soil type id that the
\* users row holds.
C11_PostUsesStoredSelection ==
    \A p \in Procs :
        loc[p].handler = "post" /\ hist[p].deleted /\ started = p =>
            \A u \in StoredUser(p) :
                loc[p].stateId = u.selectedState /\ loc[p].soilTypeId = u.selectedSoilType

\* C12: a POST /api/crop-recommendations/generate of a user whose users row is
\* missing, or holds no region or no soil type, is answered 400 and the
\* generator has not run: nothing deleted, nothing written, the user's rows
\* those of before the request.
C12_PostUnsetAnswers400 ==
    \A p \in Procs :
        /\ pc[p] = "done" /\ loc[p].handler = "post" /\ started = p
        /\ \/ StoredUser(p) = {}
           \/ \E u \in StoredUser(p) : u.selectedState \in {NULL, ""} \/ u.selectedSoilType \in {NULL, ""}
        => /\ resp[p].status = 400
           /\ ~hist[p].deleted
           /\ hist[p].wrote = {}
           /\ Ids(RowsOf(loc[p].userId)) = hist[p].before

C12_Witness ==
    /\ \E p \in Procs :
         /\ pc[p] = "done" /\ loc[p].handler = "post" /\ resp[p].status = 400
         /\ StoredUser(p) = {}
    /\ \E p \in Procs :
         /\ pc[p] = "done" /\ loc[p].handler = "post" /\ resp[p].status = 400
         /\ \E u \in StoredUser(p) : u.selectedState = NULL

\* the body of request p lacks a field, or holds one that is not a string or is
\* the empty string
BadBody(p) ==
    \/ loc[p].body.selectedState.t # "string" \/ loc[p].body.selectedState.s = ""
    \/ loc[p].body.selectedSoilType.t # "string" \/ loc[p].body.selectedSoilType.s = ""

\* C13: a PATCH /api/user/location whose body lacks selectedState or
\* selectedSoilType, or holds one that is not a string or is the empty string,
\* is answered 400, and the generator has not run.
C13_PatchBadBodyAnswers400 ==
    \A p \in Procs :
        pc[p] = "done" /\ loc[p].handler = "patch" /\ BadBody(p) =>
            /\ resp[p].status = 400
            /\ ~hist[p].deleted

C13_Witness ==
    /\ \E p \in Procs :
         /\ pc[p] = "done" /\ loc[p].handler = "patch" /\ resp[p].status = 400
         /\ loc[p].body.selectedState = Str("")
         /\ loc[p].body.selectedSoilType = Str("nosoil")
    /\ \E p \in Procs :
         /\ pc[p] = "done" /\ loc[p].handler = "patch" /\ resp[p].status = 400
         /\ loc[p].body.selectedSoilType.t = "number"

\* C14 (as claimed): the soil type of every recommendation row is a soil type
\* of the row's region.
C14_SoilTypeBelongsToRegion ==
    \A r \in cropRecommendations :
        \E s \in soilTypes : s.id = r.soilTypeId /\ s.stateId = r.stateId

\* C15: GET /api/soil-types/R answers exactly the soil-type rows whose stateId
\* is R, none of another region, and the empty list for an R without soil
\* types.
C15_SoilTypesOfRegionOnly ==
    \A p \in Procs :
        pc[p] = "done" /\ loc[p].handler = "soilTypes" /\ started = p =>
            /\ resp[p].status = 200
            /\ \A s \in resp[p].body : s \in soilTypes /\ s.stateId = loc[p].stateId
            /\ \A s \in soilTypes : s.stateId = loc[p].stateId => s \in resp[p].body
            /\ (\A s \in soilTypes : s.stateId # loc[p].stateId) => resp[p].body = {}

C15_Witness ==
    /\ \E p \in Procs :
         /\ pc[p] = "done" /\ loc[p].handler = "soilTypes"
         /\ Cardinality(resp[p].body) = Len(getSoilTypesForState("PB"))
         /\ \E s \in soilTypes : s \notin resp[p].body
    /\ \E p \in Procs :
         /\ pc[p] = "done" /\ loc[p].handler = "soilTypes"
         /\ loc[p].stateId = "nowhere" /\ resp[p].body = {} /\ soilTypes # {}

\* C16: GET /api/crop-recommendations answers one entry per stored
\* recommendation row of the requesting user and no entry of another user,
\* each with the crop, region and soil-type rows its ids name; right after a
\* regeneration of that user that returned, there is one entry per crop.
C16_RecommendationsOfUserJoined ==
    \A p \in Procs :
        pc[p] = "done" /\ loc[p].handler = "recommendations" /\ started = p =>
            /\ resp[p].status = 200
            /\ Cardinality(resp[p].body) = Cardinality(RowsOf(loc[p].userId))
            /\ \A r \in RowsOf(loc[p].userId) : \E j \in resp[p].body : j.id = r.id
            /\ \A j \in resp[p].body :
                 /\ j.userId = loc[p].userId
                 /\ \E r \in RowsOf(loc[p].userId) :
                      /\ j.id = r.id /\ j.cropId = r.cropId /\ j.stateId = r.stateId
                      /\ j.soilTypeId = r.soilTypeId
                      /\ j.compatibilityScore = r.compatibilityScore
                 /\ j.crop \in crops /\ j.crop.id = j.cropId
                 /\ j.state \in states /\ j.state.id = j.stateId
                 /\ j.soilType \in soilTypes /\ j.soilType.id = j.soilTypeId
            /\ \A q \in Procs :
                 q + 1 = p /\ GenerateReturned(q) /\ loc[q].userId = loc[p].userId =>
                     /\ Cardinality(resp[p].body) = Cardinality(crops)
                     /\ \A c \in crops : \E j \in resp[p].body : j.cropId = c.id

C16_Witness ==
    \E p, q \in Procs :
        /\ q + 1 = p /\ GenerateReturned(q) /\ loc[q].userId = loc[p].userId
        /\ pc[p] = "done" /\ loc[p].handler = "recommendations"
        /\ Cardinality(resp[p].body) = Len(cropData)

\* row r recommends the crop with the given name for the soil type with the
\* given name of a region with the given code
RecommendsFor(r, cropName, soilName, code) ==
    /\ \E c \in crops : c.id = r.cropId /\ c.name = cropName
    /\ \E t \in soilTypes :
         /\ t.id = r.soilTypeId /\ t.name = soilName
         /\ \E s \in states : s.id = t.stateId /\ s.code = code

\* C18: once the soil types are seeded, every region with code "PB" has soil
\* types named "Alluvial Soil" and "Sandy Loam" (both seed tables of the file
\* list them for PB), and every recommendation row for the crop "Rice" and
\* the "Alluvial Soil" of PB has a score of at least 80.
C18_PunjabSoilsAndRiceScore ==
    /\ soilTypes # {} =>
         \A s \in states :
             s.code = "PB" =>
                 \A n \in {"Alluvial Soil", "Sandy Loam"} :
                     \E t \in soilTypes : t.stateId = s.id /\ t.name = n
    /\ \A n \in {"Alluvial Soil", "Sandy Loam"} :
         /\ Includes(getSoilTypesForState("PB"), n)
         /\ Includes(getSoilTypesForStateSecond("PB"), n)
    /\ \A r \in cropRecommendations :
         RecommendsFor(r, "Rice", "Alluvial Soil", "PB") => r.compatibilityScore >= 80

C18_Witness ==
    /\ \E p \in Procs : pc[p] = "done" /\ loc[p].handler = "init" /\ resp[p].status = 200
    /\ \E r \in cropRecommendations :
         RecommendsFor(r, "Rice", "Alluvial Soil", "PB") /\ r.compatibilityScore = 80

\* a states row with a code no seed table lists
UnlistedRegion == [id |-> "r0", name |-> "Nowhere", code |-> "ZZ"]

\* C19: whatever seeding calls have run, one after another, every soil-type
\* row names exactly one region row; once a GET /api/init has completed every
\* region has the soil types its code is mapped to, at least one; and for a
\* region whose code the mapping does not hold the seeding takes the generic
\* list.
C19_SoilTypeOfOneRegion ==
    /\ \A t \in soilTypes : Cardinality({s \in states : s.id = t.stateId}) = 1
    /\ (\E p \in Procs : pc[p] = "done" /\ loc[p].handler = "init" /\ resp[p].status = 200) =>
          \A s \in states :
              /\ \E t \in soilTypes : t.stateId = s.id
              /\ {t.name : t \in {x \in soilTypes : x.stateId = s.id}}
                     = {getSoilTypesForState(s.code)[j] : j \in DOMAIN getSoilTypesForState(s.code)}
    /\ UnlistedRegion.code \notin DOMAIN soilMapping
    /\ {d.name : d \in SoilTypeData({UnlistedRegion})}
           = {fallbackSoils[j] : j \in DOMAIN fallbackSoils}
    /\ \A d \in SoilTypeData({UnlistedRegion}) : d.stateId = UnlistedRegion.id
    /\ SoilTypeData({UnlistedRegion}) # {}

C19_Witness ==
    \E p, q \in Procs :
        /\ p < q
        /\ pc[p] = "done" /\ loc[p].handler = "seedSoilTypes" /\ resp[p].status = 500
        /\ pc[q] = "done" /\ loc[q].handler = "init" /\ resp[q].status = 200
        /\ Cardinality(states) = Len(indianStates)
        /\ soilTypes # {}

\* request p is a regeneration that has deleted and has stopped, or stands,
\* before its insert has written
StoppedAfterDelete(p) ==
    /\ loc[p].handler \in {"patch", "post"}
    /\ hist[p].deleted /\ hist[p].wrote = {}
    /\ pc[p] = "done" => resp[p].status = 500

\* C20: a regeneration that has run its delete and has stopped before its
\* insert wrote (a thrown error, or the process standing there) leaves the user
\* without recommendation rows for as long as no later regeneration of the
\* user has inserted.
C20_StoppedRegenerationLeavesNone ==
    \A p \in Procs :
        /\ StoppedAfterDelete(p)
        /\ \A q \in Procs :
             q > p /\ loc[q].userId = loc[p].userId => hist[q].wrote = {}
        => RowsOf(loc[p].userId) = {}

C20_Witness ==
    \E p \in Procs :
        /\ StoppedAfterDelete(p)
        /\ hist[p].before # {}
        /\ hist[p].failed /\ resp[p].status = 500
        /\ RowsOf(loc[p].userId) = {}

\* request p failed the validation of its handler: the body of a PATCH
\* /api/user/location fails the schema, or the user of a POST
\* /api/crop-recommendations/generate has no row or no selection
ValidationFailed(p) ==
    \/ loc[p].handler = "patch" /\ BadBody(p)
    \/ /\ loc[p].handler = "post"
       /\ \/ loc[p].user = {}
          \/ \E u \in loc[p].user : ~Truthy(u.selectedState) \/ ~Truthy(u.selectedSoilType)

\* what holds of every request in every state: a response has been sent
\* exactly when the handler has ended; it is 200, 400 or 500; it is 400 exactly
\* for a validation failure; it is 500 when a statement threw, be it a failure
\* of the database, a row naming no region, or an empty list of values
AnsweredByRule ==
    \A p \in Procs :
        /\ (pc[p] = "done") <=> (resp[p].status # 0)
        /\ pc[p] = "done" /\ loc[p].handler \in Handlers =>
             /\ resp[p].status \in {200, 400, 500}
             /\ (resp[p].status = 400) <=> (~hist[p].failed /\ ValidationFailed(p))
             /\ hist[p].failed => resp[p].status = 500
             /\ /\ loc[p].handler = "patch" /\ ~BadBody(p)
                /\ \/ \A s \in states : s.id # loc[p].stateId
                   \/ \A s \in soilTypes : s.id # loc[p].soilTypeId
                => resp[p].status = 500
             /\ /\ loc[p].handler = "weather"
                /\ \A s \in states : s.id # loc[p].stateId
                => resp[p].status = 500

\* a response once sent is the response, and a handler that has ended does
\* not run again
AnsweredOnce ==
    \A p \in Procs :
        resp[p].status # 0 => resp'[p] = resp[p] /\ pc'[p] = "done"

\* C17: every request is answered by the rule above (400 for a validation
\* failure, 500 for every other error), a response once sent is never followed
\* by another for the same request, and every request that has started is
\* answered in the end.
C17_EveryRequestAnsweredOnce ==
    /\ []AnsweredByRule
    /\ [][AnsweredOnce]_vars
    /\ \A p \in Procs : (pc[p] # "idle") ~> (pc[p] = "done")

C17_Witness ==
    /\ \E p \in Procs :
         /\ pc[p] = "done" /\ loc[p].handler = "patch" /\ BadBody(p)
         /\ resp[p].status = 400
    /\ \E p \in Procs :
         /\ pc[p] = "done" /\ loc[p].handler = "patch" /\ hist[p].failed /\ hist[p].deleted
         /\ resp[p].status = 500

\* the names the three lookup tables of the advice list
ListedCropNames == DOMAIN irrigationAdvice \cap DOMAIN fertilizerAdvice \cap DOMAIN pestControlAdvice

C21_AdviceBundleOfPlainNames ==
    \A r \in cropRecommendations : \A c \in crops :
        (c.id = r.cropId /\ c.name \notin ObjectPrototypeKeys) =>
            /\ DOMAIN r.recommendations = {"irrigation", "fertilizer", "pestControl"}
            /\ c.name \in ListedCropNames =>
                 /\ r.recommendations.irrigation = irrigationAdvice[c.name]
                 /\ r.recommendations.fertilizer = fertilizerAdvice[c.name]
                 /\ r.recommendations.pestControl = pestControlAdvice[c.name]
            /\ c.name \notin ListedCropNames =>
                 /\ r.recommendations.irrigation = "Follow standard irrigation practices for your region"
                 /\ r.recommendations.fertilizer = "Apply balanced NPK fertilizers as per soil test"
                 /\ r.recommendations.pestControl = "Regular monitoring for pests and diseases"

\* a stored row of the unlisted crop Maize
C21_Witness ==
    \E r \in cropRecommendations : \E c \in crops : c.id = r.cropId /\ c.name = "Maize"

\* the PATCH request p got past the schema and the update of the users row,
\* called the generator, and was answered 500
RegenerationFailed(p) ==
    /\ pc[p] = "done" /\ loc[p].handler = "patch" /\ resp[p].status = 500
    /\ ValidLocation(loc[p].body)
    /\ loc[p].stateId # NULL

\* C22: once a PATCH /api/user/location whose body passed validation is
\* answered 500 because the regeneration failed, the users row of the caller
\* and the caller's recommendation rows are those of before the request
C22_FailedPatchLeavesNoTrace ==
    \A p \in Procs :
        (RegenerationFailed(p) /\ p = started /\ Quiet) =>
            /\ {u \in users : u.id = loc[p].userId} = hist[p].userBefore
            /\ Ids(RowsOf(loc[p].userId)) = hist[p].before

\* C23: the step in which a PATCH /api/user/location is answered 400 is the
\* first step of the request (no statement was run for it) and changes no
\* table: the users rows, the recommendation rows and all the other tables are
\* as they were
C23_Patch400ChangesNothing ==
    [][\A p \in Procs :
          (resp[p].status = 0 /\ resp'[p].status = 400 /\ loc'[p].handler = "patch") =>
              /\ pc[p] = "idle"
              /\ tables' = tables]_vars

\* a PATCH of a user who holds a selection and rows has been answered 400, and
\* the selection and the rows are those the request found
C23_Witness ==
    \E p \in Procs :
        /\ pc[p] = "done" /\ loc[p].handler = "patch" /\ resp[p].status = 400
        /\ hist[p].before # {}
        /\ Ids(RowsOf(loc[p].userId)) = hist[p].before
        /\ {u \in users : u.id = loc[p].userId} = hist[p].userBefore
        /\ \E u \in hist[p].userBefore : u.selectedState # NULL

\* requests p and q are two PATCH /api/user/location of one user with two
\* different selections, and both have been answered 200
TwoPatchesDone(p, q) ==
    /\ p # q
    /\ pc[p] = "done" /\ loc[p].handler = "patch" /\ resp[p].status = 200
    /\ pc[q] = "done" /\ loc[q].handler = "patch" /\ resp[q].status = 200
    /\ loc[p].userId = loc[q].userId
    /\ << loc[p].stateId, loc[p].soilTypeId >> # << loc[q].stateId, loc[q].soilTypeId >>

\* C24: once two PATCH /api/user/location of one user with different
\* selections have both completed, however their statements interleaved, every
\* recommendation row of the user names the region and the soil type stored in
\* the users row, and the user has exactly one row for every crop
C24_ConcurrentPatchesConverge ==
    \A p, q \in Procs :
        TwoPatchesDone(p, q) =>
            /\ \A r \in RowsOf(loc[p].userId) : \A u \in users :
                   u.id = r.userId =>
                       r.stateId = u.selectedState /\ r.soilTypeId = u.selectedSoilType
            /\ \A c \in crops :
                   Cardinality({r \in RowsOf(loc[p].userId) : r.cropId = c.id}) = 1

\* request q is a PATCH /api/user/location answered 200, and request p a GET
\* /api/auth/user of the same user answered 200, with no other PATCH of that
\* user from the start of q to the answer of p
ProfileReadAfterPatch(q, p) ==
    /\ q < p
    /\ pc[q] = "done" /\ loc[q].handler = "patch" /\ resp[q].status = 200
    /\ pc[p] = "done" /\ loc[p].handler = "authUser" /\ resp[p].status = 200
    /\ loc[p].userId = loc[q].userId
    /\ \A o \in Procs : (q < o /\ o < p) =>
           ~(loc[o].handler = "patch" /\ loc[o].userId = loc[q].userId)

\* C25: the profile GET /api/auth/user returns after a successful PATCH
\* /api/user/location that stored the region id R has selectedState = R
C25_ProfileCarriesStoredRegion ==
    \A p, q \in Procs :
        ProfileReadAfterPatch(q, p) =>
            \A u \in resp[p].body : u.selectedState = loc[q].stateId

\* what the profile carries instead: the name of the states row whose id is R
C25_ProfileCarriesRegionName ==
    \A p, q \in Procs :
        ProfileReadAfterPatch(q, p) =>
            \A u \in resp[p].body :
                \E s \in states : s.id = loc[q].stateId /\ u.selectedState = s.name

\* C26: once two GET /api/init, started on an empty database and interleaved
\* in any way, have both ended, the regions, soil types and crops number what a
\* single invocation writes: none is seeded twice
C26_ConcurrentInitSeedsOnce ==
    (\A p \in {1, 2} : pc[p] = "done" /\ loc[p].handler = "init") =>
        /\ Cardinality(states) = Len(indianStates)
        /\ Cardinality(soilTypes) = SeededSoilCount
        /\ Cardinality(crops) = Len(cropData)
        /\ \A s, x \in states : s.code = x.code => s = x
        /\ \A c, x \in crops : c.name = x.name => c = x

\* the positions of a request inside generateCropRecommendations
GeneratePcs == {"generate.delete", "generate.crops", "generate.soil", "generate.insert"}

\* C27: a statement of generateCropRecommendations run for user A deletes and
\* inserts only rows whose userId is A: the rows of every other user and the
\* users, states, soil-type, crop and weather tables are as they were
C27_GenerateTouchesOwnRowsOnly ==
    [][\A p \in Procs :
          (pc[p] \in GeneratePcs /\ pc'[p] # pc[p]) =>
              /\ {r \in cropRecommendations' : r.userId # loc[p].userId}
                   = {r \in cropRecommendations : r.userId # loc[p].userId}
              /\ \A r \in cropRecommendations' \ cropRecommendations : r.userId = loc[p].userId
              /\ \A r \in cropRecommendations \ cropRecommendations' : r.userId = loc[p].userId
              /\ << users, states, soilTypes, crops, weatherData >>'
                   = << users, states, soilTypes, crops, weatherData >>]_vars

\* a call for one user deleted and inserted while another user held rows, and
\* those rows are still there
C27_Witness ==
    \E p, q \in Procs :
        /\ q < p
        /\ GenerateReturned(q) /\ GenerateReturned(p)
        /\ loc[p].userId # loc[q].userId
        /\ hist[q].wrote # {}
        /\ Ids(RowsOf(loc[q].userId)) = hist[q].wrote
        /\ Ids(RowsOf(loc[p].userId)) = hist[p].wrote
        /\ weatherData = {}

\* request p is a call of upsertUser that returned, for an id that had a row
UpsertedExisting(p) ==
    /\ pc[p] = "done" /\ loc[p].handler = "upsertUser" /\ resp[p].status = 200
    /\ hist[p].userBefore # {}

\* C28: the users table holds one row per id; once upsertUser has returned
\* from a call for an id that had a row, with data that carries no selection
\* field, the row has the email and first name of the data, its selectedState
\* and selectedSoilType are those of before the call, and the recommendation
\* rows of the user are those of before the call
C28_UpsertKeepsSelection ==
    /\ \A u, v \in users : u.id = v.id => u = v
    /\ \A p \in Procs :
         (UpsertedExisting(p) /\ p = started) =>
             \A data \in loc[p].user : \A old \in hist[p].userBefore :
                 /\ {u \in users : u.id = data.id}
                      = {[old EXCEPT !.email = data.email, !.firstName = data.firstName]}
                 /\ resp[p].body = {u \in users : u.id = data.id}
                 /\ Ids(RowsOf(data.id)) = hist[p].before

\* a repeat login of a user who holds a selection and rows changed the first
\* name in the row
C28_Witness ==
    \E p \in Procs :
        /\ UpsertedExisting(p) /\ p = started
        /\ hist[p].before # {}
        /\ \E u \in users : \E old \in hist[p].userBefore :
               /\ u.id = loc[p].userId
               /\ u.selectedState # NULL /\ u.selectedSoilType # NULL
               /\ u.firstName # old.firstName

\* C29: the LocationSelector calls mutate only with a region and a soil type
\* that are both non-empty, they are the data submitted, and the soil type was
\* set while the submitted region was the one selected: no change of region
\* came after it
C29_SubmitsSoilOfCurrentRegion ==
    [][\A p \in Procs :
          (pc[p] = "mounted" /\ pc'[p] = "pending") =>
              /\ loc[p].stateId # "" /\ loc[p].soilTypeId # ""
              /\ loc'[p].body = [selectedState |-> Str(loc[p].stateId),
                                 selectedSoilType |-> Str(loc[p].soilTypeId)]
              /\ hist[p].pickedFor = loc[p].stateId
              /\ \/ loc[p].soilTypeId \in SoilOptions(p)
                 \/ \E u \in loc[p].user : u.selectedSoilType = loc[p].soilTypeId]_vars

\* a soil type was emptied by a change of region, another was picked, and the
\* two were submitted
C29_Witness ==
    \E p \in Procs :
        /\ pc[p] = "pending"
        /\ hist[p].reset
        /\ loc[p].body = [selectedState |-> Str(loc[p].stateId),
                          selectedSoilType |-> Str(loc[p].soilTypeId)]
        /\ loc[p].soilTypeId \in SoilOptions(p)

\* values of Math.random(), in thousandths, that between them give every score
\* of either range
ScoreDraws == {k * 25 : k \in 0..39} \cup {999}

\* C30: the card of every recommendation delivered by GET
\* /api/crop-recommendations is labelled 'Very Good' or 'Excellent' when the
\* compatible-soils list of the crop holds the name of the soil type, and
\* 'Poor', 'Fair' or 'Good' when not; and every score the generator can
\* compute lies in 50..99, a compatible one in 80..99 with one of the first two
\* labels, an incompatible one in 50..79 with one of the other three
C30_LabelAgreesWithCompatibility ==
    /\ \A p \in Procs :
         (pc[p] = "done" /\ loc[p].handler = "recommendations") =>
             \A j \in resp[p].body :
                 IF Compatible(j.crop, j.soilType.name)
                 THEN CardLabel(j) \in {"Very Good", "Excellent"}
                 ELSE CardLabel(j) \in {"Poor", "Fair", "Good"}
    /\ \A r \in ScoreDraws :
         /\ Score(TRUE, r) \in 80..99
         /\ getCompatibilityStatus(Score(TRUE, r)) \in {"Very Good", "Excellent"}
         /\ Score(FALSE, r) \in 50..79
         /\ getCompatibilityStatus(Score(FALSE, r)) \in {"Poor", "Fair", "Good"}

\* cards of a compatible and of an incompatible crop have been delivered, with
\* the scores 80 and 79 on either side of the threshold
C30_Witness ==
    /\ {Score(TRUE, r) : r \in ScoreDraws} = 80..99
    /\ {Score(FALSE, r) : r \in ScoreDraws} = 50..79
    /\ \E p, q \in Procs :
         /\ pc[p] = "done" /\ loc[p].handler = "recommendations"
         /\ pc[q] = "done" /\ loc[q].handler = "patch" /\ resp[q].status = 200
         /\ \E i, j \in resp[p].body :
              /\ Compatible(i.crop, i.soilType.name) /\ ~Compatible(j.crop, j.soilType.name)
              /\ {i.compatibilityScore, j.compatibilityScore} \in {{80, 50}, {99, 79}}
              /\ CardLabel(i) \in {"Very Good", "Excellent"}
              /\ CardLabel(j) \in {"Poor", "Good"}
====
